---- MODULE Spec2Model ----
(***************************************************************************)
(* Dark pattern detector: rule engine (darkPatternRules.js), heuristic     *)
(* scorer (aiDetector.js) and the detection engine that fuses them         *)
(* (darkPatternDetector.js).                                               *)
(*                                                                         *)
(* Numbers.  Scores and confidences are JavaScript numbers with two        *)
(* decimals and means of at most nine of them.  They are kept exact here   *)
(* as integers in units of 1/(100 * Hundredth): 1.0 is One.                *)
(***************************************************************************)
EXTENDS Integers, Sequences, FiniteSets, TLC

\* ---------------------------------------------------------------- bounds
\* scanPage calls per behaviour
MaxScans == 2
\* elements of the document
MaxPage == 2
\* setConfig / setSuspicionThreshold calls per behaviour
MaxSets == 1
\* nodes the page adds while the monitor exists
MaxNodes == 3

\* ------------------------------------------------------------ arithmetic
\* lcm(1..9): every mean of up to nine two-decimal scores is an integer
Hundredth == 8 * 9 * 5 * 7
One == 100 * Hundredth
Dec(h) == h * Hundredth
\* parseFloat / parseInt of a value that is not a number
NaN == 0 - 1
\* a < b on numbers where a may be NaN (every comparison with NaN is false)
NumLess(a, b) == a # NaN /\ a < b
NumGreater(a, b) == a # NaN /\ a > b
Min2(a, b) == IF a < b THEN a ELSE b
Max2(a, b) == IF a > b THEN a ELSE b

RECURSIVE SumSeq(_)
SumSeq(s) == IF s = <<>> THEN 0 ELSE Head(s) + SumSeq(Tail(s))

\* [...new Set(list)]: duplicates removed, first occurrence kept
RECURSIVE Dedupe(_)
Dedupe(s) ==
  IF s = <<>> THEN <<>>
  ELSE LET init == Dedupe(SubSeq(s, 1, Len(s) - 1))
           last == s[Len(s)]
       IN IF \E i \in 1..Len(init) : init[i] = last THEN init
          ELSE Append(init, last)

\* an exception propagating out of a call
Throw == [throw |-> TRUE]
IsThrow(x) == "throw" \in DOMAIN x
\* JavaScript null
Null == [null |-> TRUE]
IsNull(x) == "null" \in DOMAIN x

\* ----------------------------------------------------------- rule set
categories ==
  [URGENCY |-> "Urgency & Scarcity", MISDIRECTION |-> "Misdirection",
   SNEAKING |-> "Sneaking", OBSTRUCTION |-> "Obstruction",
   FORCED_ACTION |-> "Forced Action", SOCIAL_PROOF |-> "Social Proof",
   VISUAL_INTERFERENCE |-> "Visual Interference",
   CONFIRMSHAMING |-> "Confirmshaming",
   BAIT_AND_SWITCH |-> "Bait and Switch", HIDDEN_COSTS |-> "Hidden Costs"]

\* one record per rule, in registry order; nPatterns is patterns.length
rules ==
  << [id |-> "urgency-countdown", category |-> "URGENCY",
      name |-> "Fake Urgency Timer", severity |-> "high", nPatterns |-> 5],
     [id |-> "scarcity-stock", category |-> "URGENCY",
      name |-> "Fake Scarcity", severity |-> "high", nPatterns |-> 4],
     [id |-> "confirmshaming", category |-> "CONFIRMSHAMING",
      name |-> "Confirmshaming", severity |-> "medium", nPatterns |-> 5],
     [id |-> "forced-continuity", category |-> "SNEAKING",
      name |-> "Forced Continuity", severity |-> "high", nPatterns |-> 3],
     [id |-> "hidden-costs", category |-> "HIDDEN_COSTS",
      name |-> "Hidden Costs", severity |-> "high", nPatterns |-> 4],
     [id |-> "preselection", category |-> "SNEAKING",
      name |-> "Preselected Options", severity |-> "medium", nPatterns |-> 0],
     [id |-> "disguised-ads", category |-> "MISDIRECTION",
      name |-> "Disguised Ads", severity |-> "medium", nPatterns |-> 3],
     [id |-> "trick-question", category |-> "MISDIRECTION",
      name |-> "Trick Questions", severity |-> "high", nPatterns |-> 3],
     [id |-> "roach-motel", category |-> "OBSTRUCTION",
      name |-> "Roach Motel", severity |-> "high", nPatterns |-> 3],
     [id |-> "hard-to-cancel", category |-> "OBSTRUCTION",
      name |-> "Hard to Cancel", severity |-> "high", nPatterns |-> 0],
     [id |-> "fake-social-proof", category |-> "SOCIAL_PROOF",
      name |-> "Fake Social Proof", severity |-> "medium", nPatterns |-> 4],
     [id |-> "visual-prominence", category |-> "VISUAL_INTERFERENCE",
      name |-> "Visual Prominence Imbalance", severity |-> "low",
      nPatterns |-> 0],
     [id |-> "forced-enrollment", category |-> "FORCED_ACTION",
      name |-> "Forced Account Creation", severity |-> "medium",
      nPatterns |-> 3] >>

RuleIds == {rules[i].id : i \in 1..Len(rules)}

\* ------------------------------------------------- regular expressions
(***************************************************************************)
(* Text is a sequence of one-character strings.  A regular expression is   *)
(* a sequence of atoms:                                                    *)
(*   lit c    the character c                                              *)
(*   opt c    c?                                                           *)
(*   ws       \s+                                                          *)
(*   digits   \d+                                                          *)
(*   dot      .                                                            *)
(*   any      .*                                                           *)
(*   alt W    (w1|w2|...) for the words of W                               *)
(***************************************************************************)
Whitespace == {" ", "\t", "\n"}
Digits == {"0", "1", "2", "3", "4", "5", "6", "7", "8", "9"}

UpperToLower ==
  [A |-> "a", B |-> "b", C |-> "c", D |-> "d", E |-> "e", F |-> "f",
   G |-> "g", H |-> "h", I |-> "i", J |-> "j", K |-> "k", L |-> "l",
   M |-> "m", N |-> "n", O |-> "o", P |-> "p", Q |-> "q", R |-> "r",
   S |-> "s", T |-> "t", U |-> "u", V |-> "v", W |-> "w", X |-> "x",
   Y |-> "y", Z |-> "z"]

\* String.prototype.toLowerCase
toLowerCase(text) ==
  [i \in 1..Len(text) |->
     IF text[i] \in DOMAIN UpperToLower THEN UpperToLower[text[i]]
     ELSE text[i]]

Lit(word) == [i \in 1..Len(word) |-> [k |-> "lit", c |-> word[i]]]
Opt(c) == <<[k |-> "opt", c |-> c]>>
Ws == <<[k |-> "ws"]>>
DigitsPlus == <<[k |-> "digits"]>>
Dot == <<[k |-> "dot"]>>
AnyStar == <<[k |-> "any"]>>
Alt(words) == <<[k |-> "alt", of |-> words]>>

\* the word w stands in text at position pos
WordAt(text, pos, w) ==
  /\ pos + Len(w) - 1 <= Len(text)
  /\ \A j \in 1..Len(w) : text[pos + j - 1] = w[j]

\* the n characters of text from pos on all belong to class
RunOf(text, pos, n, class) ==
  \A j \in pos..(pos + n - 1) : text[j] \in class

\* atoms k.. of re match text from position pos on
RECURSIVE MatchFrom(_, _, _, _)
MatchFrom(re, k, text, pos) ==
  IF k > Len(re) THEN TRUE
  ELSE LET a == re[k]
           left == Len(text) - pos + 1
       IN CASE a.k = "lit" ->
                 /\ left >= 1 /\ text[pos] = a.c
                 /\ MatchFrom(re, k + 1, text, pos + 1)
            [] a.k = "opt" ->
                 \/ /\ left >= 1 /\ text[pos] = a.c
                    /\ MatchFrom(re, k + 1, text, pos + 1)
                 \/ MatchFrom(re, k + 1, text, pos)
            [] a.k = "ws" ->
                 \E n \in 1..left :
                   RunOf(text, pos, n, Whitespace)
                   /\ MatchFrom(re, k + 1, text, pos + n)
            [] a.k = "digits" ->
                 \E n \in 1..left :
                   RunOf(text, pos, n, Digits)
                   /\ MatchFrom(re, k + 1, text, pos + n)
            [] a.k = "dot" ->
                 /\ left >= 1 /\ text[pos] # "\n"
                 /\ MatchFrom(re, k + 1, text, pos + 1)
            [] a.k = "any" ->
                 \E n \in 0..left :
                   (\A j \in pos..(pos + n - 1) : text[j] # "\n")
                   /\ MatchFrom(re, k + 1, text, pos + n)
            [] a.k = "alt" ->
                 \E w \in a.of :
                   WordAt(text, pos, w)
                   /\ MatchFrom(re, k + 1, text, pos + Len(w))

\* /re/i.test(text) for a pattern written in lower case
RegExpTest(re, text) ==
  \E pos \in 1..(Len(text) + 1) : MatchFrom(re, 1, toLowerCase(text), pos)

\* patterns.some(pattern => pattern.test(text))
SomeTest(patterns, text) ==
  \E p \in 1..Len(patterns) : RegExpTest(patterns[p], text)

\* ------------------------------------------ the confirmshaming rule
\* rules[confirmshaming].patterns
confirmshamingPatterns ==
  << \* /no,?\s+i\s+don'?t\s+want/i
     Lit(<<"n", "o">>) \o Opt(",") \o Ws \o Lit(<<"i">>) \o Ws
       \o Lit(<<"d", "o", "n">>) \o Opt("'") \o Lit(<<"t">>) \o Ws
       \o Lit(<<"w", "a", "n", "t">>),
     \* /no\s+thanks,?\s+i\s+(prefer|like)\s+to/i
     Lit(<<"n", "o">>) \o Ws \o Lit(<<"t", "h", "a", "n", "k", "s">>)
       \o Opt(",") \o Ws \o Lit(<<"i">>) \o Ws
       \o Alt({<<"p", "r", "e", "f", "e", "r">>, <<"l", "i", "k", "e">>})
       \o Ws \o Lit(<<"t", "o">>),
     \* /i\s+hate\s+(money|savings|deals)/i
     Lit(<<"i">>) \o Ws \o Lit(<<"h", "a", "t", "e">>) \o Ws
       \o Alt({<<"m", "o", "n", "e", "y">>,
               <<"s", "a", "v", "i", "n", "g", "s">>,
               <<"d", "e", "a", "l", "s">>}),
     \* /no,?\s+i'?ll\s+pay\s+(full|more)/i
     Lit(<<"n", "o">>) \o Opt(",") \o Ws \o Lit(<<"i">>) \o Opt("'")
       \o Lit(<<"l", "l">>) \o Ws \o Lit(<<"p", "a", "y">>) \o Ws
       \o Alt({<<"f", "u", "l", "l">>, <<"m", "o", "r", "e">>}),
     \* /i\s+don'?t\s+want\s+to\s+(save|win)/i
     Lit(<<"i">>) \o Ws \o Lit(<<"d", "o", "n">>) \o Opt("'")
       \o Lit(<<"t">>) \o Ws \o Lit(<<"w", "a", "n", "t">>) \o Ws
       \o Lit(<<"t", "o">>) \o Ws
       \o Alt({<<"s", "a", "v", "e">>, <<"w", "i", "n">>}) >>

\* /no,?\s+i\s+(don'?t|hate|prefer)/i of rules[confirmshaming].checkElement
hasShamingPattern ==
  Lit(<<"n", "o">>) \o Opt(",") \o Ws \o Lit(<<"i">>) \o Ws
    \o Alt({<<"d", "o", "n", "t">>, <<"d", "o", "n", "'", "t">>,
            <<"h", "a", "t", "e">>, <<"p", "r", "e", "f", "e", "r">>})

\* rules[confirmshaming].checkElement
confirmshamingCheck(tagName, textContent) ==
  LET text == toLowerCase(textContent)
      isButton == tagName = "BUTTON" \/ tagName = "A"
      hasShaming == RegExpTest(hasShamingPattern, text)
  IN isButton /\ hasShaming

\* ------------------------------------------ the text regexes of the scorer
\* hasNegativeLanguage
negativePatterns ==
  << Lit(<<"n", "o">>) \o Ws \o Lit(<<"t", "h", "a", "n", "k", "s">>),
     Lit(<<"d", "o", "n">>) \o Opt("'") \o Lit(<<"t">>) \o Ws
       \o Lit(<<"w", "a", "n", "t">>),
     Lit(<<"i">>) \o Ws \o Lit(<<"h", "a", "t", "e">>),
     Lit(<<"n", "o", "t">>) \o Ws
       \o Lit(<<"i", "n", "t", "e", "r", "e", "s", "t", "e", "d">>),
     Lit(<<"d", "e", "c", "l", "i", "n", "e">>),
     Lit(<<"r", "e", "f", "u", "s", "e">>) >>

\* hasUrgentLanguage
urgentPatterns ==
  << Lit(<<"n", "o", "w">>), Lit(<<"t", "o", "d", "a", "y">>),
     Lit(<<"h", "u", "r", "r", "y">>), Lit(<<"q", "u", "i", "c", "k">>),
     Lit(<<"l", "i", "m", "i", "t", "e", "d">>),
     Lit(<<"e", "x", "p", "i", "r", "e">>) \o Opt("s"),
     Lit(<<"e", "n", "d", "i", "n", "g">>),
     Lit(<<"l", "a", "s", "t">>) \o Ws \o Lit(<<"c", "h", "a", "n", "c", "e">>),
     Lit(<<"a", "c", "t">>) \o Ws \o Lit(<<"f", "a", "s", "t">>) >>

\* the manipulativePatterns of calculateSentiment
sentimentPatterns ==
  << Lit(<<"d", "o", "n">>) \o Opt("'") \o Lit(<<"t", " ", "m", "i", "s", "s">>),
     Lit(<<"l", "o", "s", "e", " ", "o", "u", "t">>),
     Lit(<<"r", "e", "g", "r", "e", "t">>),
     Lit(<<"m", "i", "s", "t", "a", "k", "e">>),
     Lit(<<"f", "o", "o", "l", "i", "s", "h">>),
     Lit(<<"s", "t", "u", "p", "i", "d">>),
     Lit(<<"h", "a", "t", "e">>) >>

\* what the rule engine and the scorer read from a text: the fields
\* textHit / chkTrue for the confirmshaming rule and the four text reads
TextOf(tagName, textContent) ==
  [textHit |-> IF SomeTest(confirmshamingPatterns, textContent)
               THEN {"confirmshaming"} ELSE {},
   chkTrue |-> IF confirmshamingCheck(tagName, textContent)
               THEN {"confirmshaming"} ELSE {},
   negative |-> SomeTest(negativePatterns, textContent),
   urgent |-> SomeTest(urgentPatterns, textContent),
   numbers |-> RegExpTest(DigitsPlus, textContent),
   manipHits |->
     Cardinality({p \in 1..Len(sentimentPatterns) :
                    RegExpTest(sentimentPatterns[p], textContent)})]

\* ------------------------------------------ the preselection rule
\* /newsletter|marketing|promotional|third.party|share.*(data|info)/i
isNegativePatterns ==
  << Lit(<<"n", "e", "w", "s", "l", "e", "t", "t", "e", "r">>),
     Lit(<<"m", "a", "r", "k", "e", "t", "i", "n", "g">>),
     Lit(<<"p", "r", "o", "m", "o", "t", "i", "o", "n", "a", "l">>),
     Lit(<<"t", "h", "i", "r", "d">>) \o Dot \o Lit(<<"p", "a", "r", "t", "y">>),
     Lit(<<"s", "h", "a", "r", "e">>) \o AnyStar
       \o Alt({<<"d", "a", "t", "a">>, <<"i", "n", "f", "o">>}) >>

\* rules[preselection].checkElement reading its own text instead of the
\* text of element.labels[0]
preselectionCheck_OwnText(tagName, type, checked, textContent, labels) ==
  IF tagName = "INPUT" /\ (type = "checkbox" \/ type = "radio")
  THEN LET isChecked == checked
           label == toLowerCase(textContent)
           isNegative == SomeTest(isNegativePatterns, label)
       IN isChecked /\ isNegative
  ELSE FALSE

\* rules[preselection].checkElement; labels is element.labels as the
\* texts of the labels, checked is element.checked || hasAttribute
preselectionCheck(tagName, type, checked, textContent, labels) ==
  IF tagName = "INPUT" /\ (type = "checkbox" \/ type = "radio")
  THEN LET isChecked == checked
           label == IF Len(labels) > 0 THEN toLowerCase(labels[1]) ELSE <<>>
           isNegative == SomeTest(isNegativePatterns, label)
       IN isChecked /\ isNegative
  ELSE FALSE

(***************************************************************************)
(* Elements.  The host document is a collaborator; an element is the       *)
(* record of what the engine can read from it:                             *)
(*   matches    selectors for which querySelectorAll / matches selects it  *)
(*   manipText  its text matches the manipulative-text regex of the        *)
(*              candidate enumeration                                      *)
(*   textHit    rules one of whose text patterns matches its text          *)
(*   chkTrue    rules whose checkElement returns a truthy value            *)
(*   chkThrow   rules whose checkElement throws                            *)
(*   negative, urgent, numbers, manipHits   what the text regexes find     *)
(*   opacity, color, background, position, zIndex, pointerNone   styles    *)
(*   tag, onclick, cursorPointer, hasId   tag name and attribute reads     *)
(*   containsControls   it has a form, input, select or textarea below it  *)
(*   checkedInput       it has a checked checkbox or radio below it        *)
(*   timer              its text has a clock (d:d) or a timer/countdown    *)
(*                      class is below it                                  *)
(*   ancestors  parent chain up to the root: for each ancestor the         *)
(*              keywords its class name contains, or svg when className    *)
(*              is not a string                                            *)
(*   onload     has the data-onload attribute                              *)
(*   rendered   display is not none, visibility is not hidden and the      *)
(*              bounding rectangle is not empty                            *)
(***************************************************************************)

\* RuleIsMatch with a catch block that counts the failed check as a match
RuleIsMatch_CatchMatches(el, rule) ==
  LET textMatch == rule.nPatterns > 0 /\ rule.id \in el.textHit
  IN IF textMatch THEN TRUE
     ELSE IF rule.id \in el.chkThrow THEN TRUE
     ELSE rule.id \in el.chkTrue

\* ---------------------------------------------------- rule evaluation
\* one iteration of the loop of applyRules: isMatch for one rule
RuleIsMatch(el, rule) ==
  LET textMatch == rule.nPatterns > 0 /\ rule.id \in el.textHit
  IN IF textMatch THEN TRUE
     ELSE IF rule.id \in el.chkThrow THEN FALSE
     ELSE rule.id \in el.chkTrue

RuleMatch(rule) ==
  [ruleId |-> rule.id, ruleName |-> rule.name, category |-> rule.category,
   severity |-> rule.severity, confidence |-> Dec(90)]

\* applyRules leaving the loop at the first rule that matches
applyRules_FirstMatch(el) ==
  LET Test(rule) == RuleIsMatch(el, rule)
      hit == SelectSeq(rules, Test)
  IN IF hit = <<>> THEN <<>> ELSE <<RuleMatch(hit[1])>>

applyRules(el) ==
  LET Test(rule) == RuleIsMatch(el, rule)
      hit == SelectSeq(rules, Test)
  IN [i \in 1..Len(hit) |-> RuleMatch(hit[i])]

\* ------------------------------------------------- feature extraction
\* calculateSentiment: 0.2 off per manipulative pattern found, clamped
calculateSentiment(manipHits) ==
  Max2(0 - Dec(100), Min2(Dec(100), 0 - manipHits * Dec(20)))

extractTextFeatures(el) ==
  [hasNegativeLanguage |-> el.negative,
   hasUrgentLanguage |-> el.urgent,
   sentimentScore |-> calculateSentiment(el.manipHits),
   hasNumberClaims |-> el.numbers]

\* parseInt(styles.zIndex) || 0
ZIndexOr0(z) == IF z = NaN THEN 0 ELSE z

isOverlay(el) ==
  el.position \in {"fixed", "absolute"} /\ ZIndexOr0(el.zIndex) > 1000

\* getBrightness, times 1000; a colour without digits is mid-gray 128
getBrightness(color) ==
  IF color = <<>> THEN 128 * 1000
  ELSE color[1] * 299 + color[2] * 587 + color[3] * 114

\* (lighter + 0.05) / (darker + 0.05) as a fraction, both parts times 1000
calculateContrastRatio(el) ==
  LET bgBrightness == getBrightness(el.background)
      fgBrightness == getBrightness(el.color)
  IN [num |-> Max2(bgBrightness, fgBrightness) + 50,
      den |-> Min2(bgBrightness, fgBrightness) + 50]

extractVisualFeatures(el) ==
  [opacity |-> el.opacity,
   zIndex |-> ZIndexOr0(el.zIndex),
   isOverlay |-> isOverlay(el),
   contrastRatio |-> calculateContrastRatio(el)]

interactiveTags == {"BUTTON", "A", "INPUT", "SELECT", "TEXTAREA"}

isInteractive(el) ==
  el.tag \in interactiveTags \/ el.onclick \/ el.cursorPointer

isForm(el) == el.tag = "FORM" \/ el.containsControls

blocksUserAction(el) ==
  /\ el.position \in {"fixed", "absolute"}
  /\ ~el.pointerNone
  /\ NumGreater(el.zIndex, 100)

extractBehavioralFeatures(el) ==
  [isInteractive |-> isInteractive(el),
   isForm |-> isForm(el),
   hasPreselection |-> el.checkedInput,
   hasTimeConstraint |-> el.timer,
   blocksUserAction |-> blocksUserAction(el)]

\* the parent walk of isInModal / isInPopup from ancestor i upwards:
\* "true", "false", or "throw" when an ancestor's className has no
\* toLowerCase (an SVG element)
RECURSIVE AncestorWalk(_, _, _)
AncestorWalk(ancestors, i, keywords) ==
  IF i > Len(ancestors) THEN "false"
  ELSE IF ancestors[i].svg THEN "throw"
  ELSE IF ancestors[i].kw \cap keywords # {} THEN "true"
  ELSE AncestorWalk(ancestors, i + 1, keywords)

isInModal(el) == AncestorWalk(el.ancestors, 1, {"modal", "dialog"})
isInPopup(el) == AncestorWalk(el.ancestors, 1, {"popup", "overlay"})

extractContextualFeatures(el) ==
  IF isInModal(el) = "throw" \/ isInPopup(el) = "throw" THEN Throw
  ELSE [isInModal |-> isInModal(el) = "true",
        isInPopup |-> isInPopup(el) = "true",
        appearsOnLoad |-> el.onload]

extractFeatures(el) ==
  IF IsThrow(extractContextualFeatures(el)) THEN Throw
  ELSE [text |-> extractTextFeatures(el),
        visual |-> extractVisualFeatures(el),
        behavioral |-> extractBehavioralFeatures(el),
        contextual |-> extractContextualFeatures(el)]

\* ------------------------------------------------------------- scorer
\* the nine if-blocks of makePredictions, in order
Conditions(features) ==
  << [on |-> features.text.hasNegativeLanguage
             /\ features.text.sentimentScore < 0 - Dec(30),
      score |-> Dec(80), pattern |-> "manipulative-language",
      reason |-> "Uses negative/guilt-inducing language"],
     [on |-> features.text.hasUrgentLanguage
             /\ features.text.hasNumberClaims,
      score |-> Dec(70), pattern |-> "false-urgency",
      reason |-> "Creates false sense of urgency with specific numbers"],
     [on |-> NumLess(features.visual.opacity, 50)
             /\ features.behavioral.isInteractive,
      score |-> Dec(85), pattern |-> "visual-obstruction",
      reason |-> "Important interactive element has low visibility"],
     [on |-> features.visual.contrastRatio.num
               < 3 * features.visual.contrastRatio.den
             /\ features.behavioral.isInteractive,
      score |-> Dec(75), pattern |-> "low-contrast-deception",
      reason |-> "Low contrast used to hide important options"],
     [on |-> features.visual.isOverlay /\ features.contextual.isInModal,
      score |-> Dec(65), pattern |-> "forced-interaction",
      reason |-> "Overlay forces user interaction"],
     [on |-> features.behavioral.hasPreselection
             /\ features.behavioral.isForm,
      score |-> Dec(80), pattern |-> "sneaky-preselection",
      reason |-> "Form has pre-selected options that benefit the company"],
     [on |-> features.behavioral.blocksUserAction,
      score |-> Dec(90), pattern |-> "forced-continuity",
      reason |-> "Element blocks user from completing desired action"],
     [on |-> features.behavioral.hasTimeConstraint
             /\ features.text.hasUrgentLanguage,
      score |-> Dec(85), pattern |-> "pressure-tactics",
      reason |-> "Combines time pressure with urgent language"],
     [on |-> features.contextual.isInPopup
             /\ features.contextual.appearsOnLoad,
      score |-> Dec(60), pattern |-> "intrusive-popup",
      reason |-> "Popup appears immediately on page load"] >>

\* makePredictions with the scores added up instead of averaged
makePredictions_Sum(features) ==
  LET On(c) == c.on
      fired == SelectSeq(Conditions(features), On)
      scores == [i \in 1..Len(fired) |-> fired[i].score]
  IN [confidence |-> SumSeq(scores),
      patterns |-> Dedupe([i \in 1..Len(fired) |-> fired[i].pattern]),
      reasoning |-> [i \in 1..Len(fired) |-> fired[i].reason]]

\* makePredictions dividing the sum of the scores by the number of all
\* nine conditions
makePredictions_OverAllRows(features) ==
  LET On(c) == c.on
      fired == SelectSeq(Conditions(features), On)
      scores == [i \in 1..Len(fired) |-> fired[i].score]
  IN [confidence |-> SumSeq(scores) \div Len(Conditions(features)),
      patterns |-> Dedupe([i \in 1..Len(fired) |-> fired[i].pattern]),
      reasoning |-> [i \in 1..Len(fired) |-> fired[i].reason]]

makePredictions(features) ==
  LET On(c) == c.on
      fired == SelectSeq(Conditions(features), On)
      scores == [i \in 1..Len(fired) |-> fired[i].score]
  IN [confidence |-> IF Len(scores) > 0
                     THEN SumSeq(scores) \div Len(scores) ELSE 0,
      patterns |-> Dedupe([i \in 1..Len(fired) |-> fired[i].pattern]),
      reasoning |-> [i \in 1..Len(fired) |-> fired[i].reason]]

\* detect with a verdict that is positive only above the threshold
detect_Above(el, threshold) ==
  IF IsThrow(extractFeatures(el)) THEN Throw
  ELSE LET predictions == makePredictions(extractFeatures(el))
       IN [isDarkPattern |-> predictions.confidence > threshold,
           confidence |-> predictions.confidence,
           detectedPatterns |-> predictions.patterns,
           reasoning |-> predictions.reasoning]

\* AIDetector.detect under the suspicion threshold in force; features is
\* bound to the value of extractFeatures(element) once
detect(el, threshold) ==
  LET Verdict(features) ==
        IF IsThrow(features) THEN Throw
        ELSE LET predictions == makePredictions(features)
             IN [isDarkPattern |-> predictions.confidence >= threshold,
                 confidence |-> predictions.confidence,
                 detectedPatterns |-> predictions.patterns,
                 reasoning |-> predictions.reasoning]
  IN CHOOSE v \in {Verdict(features) : features \in {extractFeatures(el)}} :
       TRUE

\* ClampThreshold without the lower clamp
ClampThreshold_NoLower(t) == Min2(One, t)

\* Math.max(0, Math.min(1, threshold))
ClampThreshold(t) == Max2(0, Min2(One, t))

\* ------------------------------------------------------- aggregation
\* calculateOverallConfidence renormalised by the weights that are present
calculateOverallConfidence_Renormalised(ruleResults, aiResult) ==
  LET ruleConfidence ==
        SumSeq([i \in 1..Len(ruleResults) |-> ruleResults[i].confidence])
          \div Len(ruleResults)
      hasRules == Len(ruleResults) > 0
      hasAI == ~IsNull(aiResult) /\ aiResult.isDarkPattern
      rulePart == IF hasRules THEN ruleConfidence * 6 ELSE 0
      aiPart == IF hasAI THEN aiResult.confidence * 4 ELSE 0
      weight == (IF hasRules THEN 6 ELSE 0) + (IF hasAI THEN 4 ELSE 0)
  IN IF weight > 0 THEN (rulePart + aiPart) \div weight ELSE 0

calculateOverallConfidence(ruleResults, aiResult) ==
  LET ruleConfidence ==
        SumSeq([i \in 1..Len(ruleResults) |-> ruleResults[i].confidence])
          \div Len(ruleResults)
      rulePart == IF Len(ruleResults) > 0
                  THEN (ruleConfidence * 6) \div 10 ELSE 0
      aiPart == IF ~IsNull(aiResult) /\ aiResult.isDarkPattern
                THEN (aiResult.confidence * 4) \div 10 ELSE 0
  IN rulePart + aiPart

\* determineSeverity letting a confident heuristic verdict outrank the rules
determineSeverity_HeuristicFirst(ruleResults, aiResult) ==
  LET severities == {ruleResults[i].severity : i \in 1..Len(ruleResults)}
      aiHigh == ~IsNull(aiResult) /\ aiResult.isDarkPattern
                /\ aiResult.confidence > Dec(80)
  IN IF aiHigh \/ "high" \in severities THEN "high"
     ELSE IF "medium" \in severities THEN "medium"
     ELSE IF "low" \in severities THEN "low"
     ELSE IF ~IsNull(aiResult) /\ aiResult.isDarkPattern
          THEN IF aiResult.confidence > Dec(60) THEN "medium" ELSE "low"
     ELSE "low"

determineSeverity(ruleResults, aiResult) ==
  LET severities == {ruleResults[i].severity : i \in 1..Len(ruleResults)}
  IN IF "high" \in severities THEN "high"
     ELSE IF "medium" \in severities THEN "medium"
     ELSE IF "low" \in severities THEN "low"
     ELSE IF ~IsNull(aiResult) /\ aiResult.isDarkPattern
          THEN IF aiResult.confidence > Dec(80) THEN "high"
               ELSE IF aiResult.confidence > Dec(60) THEN "medium"
               ELSE "low"
     ELSE "low"

\* the advice pushed for one category of generateRecommendations
Advice(category) ==
  CASE category = "URGENCY" ->
         << "Remove or verify artificial urgency claims",
            "Ensure scarcity claims are accurate and not misleading" >>
    [] category = "CONFIRMSHAMING" ->
         << "Use neutral language for decline options",
            "Respect user choice without guilt-inducing language" >>
    [] category = "SNEAKING" ->
         << "Make all costs and terms transparent upfront",
            "Remove pre-selected options that benefit the company" >>
    [] category = "OBSTRUCTION" ->
         << "Make cancellation as easy as subscription",
            "Provide clear, accessible exit options" >>
    [] category = "VISUAL_INTERFERENCE" ->
         << "Ensure equal visual prominence for all options",
            "Maintain adequate contrast and readability" >>
    [] OTHER -> <<>>

\* generateRecommendations with the heuristic reasons pushed first
generateRecommendations_ReasonsFirst(ruleResults, aiResult) ==
  LET cats == {ruleResults[i].category : i \in 1..Len(ruleResults)}
      For(c) == IF c \in cats THEN Advice(c) ELSE <<>>
      fromRules == For("URGENCY") \o For("CONFIRMSHAMING") \o For("SNEAKING")
                   \o For("OBSTRUCTION") \o For("VISUAL_INTERFERENCE")
      fromAI == IF IsNull(aiResult) THEN <<>>
                ELSE [i \in 1..Len(aiResult.reasoning) |->
                        <<"AI detected: ", aiResult.reasoning[i]>>]
  IN Dedupe(fromAI \o [i \in 1..Len(fromRules) |-> <<fromRules[i]>>])

generateRecommendations(ruleResults, aiResult) ==
  LET cats == {ruleResults[i].category : i \in 1..Len(ruleResults)}
      For(c) == IF c \in cats THEN Advice(c) ELSE <<>>
      fromRules == For("URGENCY") \o For("CONFIRMSHAMING") \o For("SNEAKING")
                   \o For("OBSTRUCTION") \o For("VISUAL_INTERFERENCE")
      fromAI == IF IsNull(aiResult) THEN <<>>
                ELSE [i \in 1..Len(aiResult.reasoning) |->
                        <<"AI detected: ", aiResult.reasoning[i]>>]
  IN Dedupe([i \in 1..Len(fromRules) |-> <<fromRules[i]>>] \o fromAI)

\* getCSSSelector reads className.split on the element's first ancestors
\* unless the element has an id; an SVG ancestor has no split
getElementInfo(el) ==
  IF ~el.hasId /\ \E i \in 1..Min2(4, Len(el.ancestors)) : el.ancestors[i].svg
  THEN Throw
  ELSE [tagName |-> el.tag]

\* Combine with detected taken from the rule matches alone
Combine_RulesOnly(elRef, el, ruleResults, aiResult) ==
  LET detected == Len(ruleResults) > 0
  IN IF ~detected THEN [detected |-> FALSE]
     ELSE IF IsThrow(getElementInfo(el)) THEN Throw
     ELSE [detected |-> TRUE,
           element |-> elRef,
           elementInfo |-> getElementInfo(el),
           ruleMatches |-> ruleResults,
           aiDetection |-> aiResult,
           confidence |-> calculateOverallConfidence(ruleResults, aiResult),
           severity |-> determineSeverity(ruleResults, aiResult),
           recommendations |->
             generateRecommendations(ruleResults, aiResult)]

\* the part of analyzeElement after both detectors have answered
Combine(elRef, el, ruleResults, aiResult) ==
  LET detected == Len(ruleResults) > 0
                  \/ (~IsNull(aiResult) /\ aiResult.isDarkPattern)
  IN IF ~detected THEN [detected |-> FALSE]
     ELSE IF IsThrow(getElementInfo(el)) THEN Throw
     ELSE [detected |-> TRUE,
           element |-> elRef,
           elementInfo |-> getElementInfo(el),
           ruleMatches |-> ruleResults,
           aiDetection |-> aiResult,
           confidence |-> calculateOverallConfidence(ruleResults, aiResult),
           severity |-> determineSeverity(ruleResults, aiResult),
           recommendations |->
             generateRecommendations(ruleResults, aiResult)]

\* ----------------------------------------------- candidate enumeration
interactiveSelectors ==
  << "button", "a", "input", "form", "[onclick]", "[role=\"button\"]",
     ".button", ".btn" >>

suspiciousSelectors ==
  << "[class*=\"timer\"]", "[class*=\"countdown\"]", "[class*=\"urgent\"]",
     "[class*=\"limited\"]", "[class*=\"modal\"]", "[class*=\"popup\"]",
     "[class*=\"overlay\"]" >>

\* selector strings the host rejects with a SyntaxError
Malformed == {"[[["}

\* document.querySelectorAll(selector): page indices in document order
querySelectorAll(d, selector) ==
  LET Sel(i) == selector \in d[i].matches
  IN SelectSeq([i \in 1..Len(d) |-> i], Sel)

\* excludeSelectors.some(s => el.matches(s)) from entry k on:
\* "true", "false", or "throw" at the first malformed entry reached
RECURSIVE SomeExcluded(_, _, _)
SomeExcluded(el, excludeSelectors, k) ==
  IF k > Len(excludeSelectors) THEN "false"
  ELSE IF excludeSelectors[k] \in Malformed THEN "throw"
  ELSE IF excludeSelectors[k] \in el.matches THEN "true"
  ELSE SomeExcluded(el, excludeSelectors, k + 1)

\* found.forEach(...) from position j on; an exception leaves the loop
\* and is caught by the try around the selector
RECURSIVE ForEachFound(_, _, _, _, _)
ForEachFound(d, excludeSelectors, found, j, elements) ==
  IF j > Len(found) THEN elements
  ELSE LET shouldExclude == SomeExcluded(d[found[j]], excludeSelectors, 1)
           inList == \E k \in 1..Len(elements) : elements[k] = found[j]
       IN IF shouldExclude = "throw" THEN elements
          ELSE ForEachFound(d, excludeSelectors, found, j + 1,
                 IF shouldExclude = "false" /\ ~inList
                 THEN Append(elements, found[j]) ELSE elements)

\* allSelectors.forEach(...) from selector i on
RECURSIVE ForEachSelector(_, _, _, _, _)
ForEachSelector(d, excludeSelectors, allSelectors, i, elements) ==
  IF i > Len(allSelectors) THEN elements
  ELSE ForEachSelector(d, excludeSelectors, allSelectors, i + 1,
         IF allSelectors[i] \in Malformed THEN elements
         ELSE ForEachFound(d, excludeSelectors,
                querySelectorAll(d, allSelectors[i]), 1, elements))

\* allText.forEach(...): every element of the document, from position i on
RECURSIVE ForEachText(_, _, _)
ForEachText(d, i, elements) ==
  IF i > Len(d) THEN elements
  ELSE LET inList == \E k \in 1..Len(elements) : elements[k] = i
       IN ForEachText(d, i + 1,
            IF d[i].manipText /\ ~inList THEN Append(elements, i)
            ELSE elements)

getAllRelevantElements(d, excludeSelectors) ==
  ForEachText(d, 1,
    ForEachSelector(d, excludeSelectors,
      interactiveSelectors \o suspiciousSelectors, 1, <<>>))

\* ------------------------------------------------------------ summary
\* summary.byCategory[category] = (summary.byCategory[category] || 0) + 1
\* on an object kept as its entries in insertion order
BumpCategory(byCategory, category) ==
  IF \E k \in 1..Len(byCategory) : byCategory[k].category = category
  THEN [k \in 1..Len(byCategory) |->
          IF byCategory[k].category = category
          THEN [byCategory[k] EXCEPT !.count = @ + 1] ELSE byCategory[k]]
  ELSE Append(byCategory, [category |-> category, count |-> 1])

RECURSIVE CountMatches(_, _)
CountMatches(ruleMatches, byCategory) ==
  IF ruleMatches = <<>> THEN byCategory
  ELSE CountMatches(Tail(ruleMatches),
                    BumpCategory(byCategory, Head(ruleMatches).category))

\* CountCategories with a heuristic-only detection counted under its own
\* category
RECURSIVE CountCategories_Heuristic(_, _)
CountCategories_Heuristic(results, byCategory) ==
  IF results = <<>> THEN byCategory
  ELSE CountCategories_Heuristic(Tail(results),
         IF Head(results).ruleMatches = <<>>
         THEN BumpCategory(byCategory, "HEURISTIC")
         ELSE CountMatches(Head(results).ruleMatches, byCategory))

RECURSIVE CountCategories(_, _)
CountCategories(results, byCategory) ==
  IF results = <<>> THEN byCategory
  ELSE CountCategories(Tail(results),
                       CountMatches(Head(results).ruleMatches, byCategory))

\* SortByCount leaving the entries in insertion order
SortByCount_InsertionOrder(entries) == entries

\* entries.sort((a, b) => b[1] - a[1]): stable, highest count first
RECURSIVE SortByCount(_)
SortByCount(entries) ==
  IF entries = <<>> THEN <<>>
  ELSE LET sorted == SortByCount(SubSeq(entries, 1, Len(entries) - 1))
           last == entries[Len(entries)]
           Before(e) == e.count >= last.count
           After(e) == e.count < last.count
       IN SelectSeq(sorted, Before) \o <<last>> \o SelectSeq(sorted, After)

TopN == 5

CategoryName(category) ==
  IF category \in DOMAIN categories THEN categories[category] ELSE category

generateSummary(results) ==
  LET Count(sev) ==
        Cardinality({i \in 1..Len(results) : results[i].severity = sev})
      byCategory == CountCategories(results, <<>>)
      sorted == SortByCount(byCategory)
      top == SubSeq(sorted, 1, Min2(TopN, Len(sorted)))
  IN [totalDetections |-> Len(results),
      bySeverity |-> [high |-> Count("high"), medium |-> Count("medium"),
                      low |-> Count("low")],
      byCategory |-> byCategory,
      topIssues |-> [i \in 1..Len(top) |->
                       [category |-> top[i].category, count |-> top[i].count,
                        categoryName |-> CategoryName(top[i].category)]]]

\* ------------------------------------------- highlighting and export
\* isVisible: display, visibility and rectangle (rendered) and opacity
isVisible(el) == el.rendered /\ el.opacity # 0

\* getSeverityColor
getSeverityColor(severity) ==
  CASE severity = "high" -> "#dc2626"
    [] severity = "medium" -> "#f59e0b"
    [] OTHER -> "#3b82f6"

\* severity.toUpperCase()
SeverityUpperCase(severity) ==
  CASE severity = "high" -> "HIGH"
    [] severity = "medium" -> "MEDIUM"
    [] severity = "low" -> "LOW"

\* the badge created for one result
Badge(r) ==
  [className |-> "dark-pattern-badge",
   background |-> getSeverityColor(r.severity),
   textContent |-> SeverityUpperCase(r.severity)]

\* the forEach of highlightDetections from result j on: st is the style
\* of the elements and bs the badges in the document
RECURSIVE HighlightEach(_, _, _, _, _)
HighlightEach(d, results, j, st, bs) ==
  IF j > Len(results) THEN [style |-> st, badges |-> bs]
  ELSE LET r == results[j]
       IN IF ~isVisible(d[r.element])
          THEN HighlightEach(d, results, j + 1, st, bs)
          ELSE HighlightEach(d, results, j + 1,
                 [st EXCEPT ![r.element] =
                    [outline |-> getSeverityColor(r.severity),
                     outlineOffset |-> "2px"]],
                 Append(bs, Badge(r)))

\* the forEach of removeHighlights from result j on
RECURSIVE ClearEach(_, _, _)
ClearEach(results, j, st) ==
  IF j > Len(results) THEN st
  ELSE ClearEach(results, j + 1,
                 [st EXCEPT ![results[j].element] =
                    [outline |-> "", outlineOffset |-> ""]])

\* JSON.stringify writes a number that is NaN as null
JSONNumber(n) == IF n = NaN THEN Null ELSE n

\* one entry of the detections of exportResults as JSON.stringify writes
\* it; the key patterns is left out because r.aiDetection.patterns is
\* undefined
ExportDetection(r) ==
  [severity |-> r.severity,
   confidence |-> JSONNumber(r.confidence),
   element |-> r.elementInfo,
   ruleMatches |->
     [i \in 1..Len(r.ruleMatches) |->
        [r.ruleMatches[i] EXCEPT !.confidence = JSONNumber(@)]],
   aiDetection |->
     IF IsNull(r.aiDetection) THEN Null
     ELSE [confidence |-> JSONNumber(r.aiDetection.confidence),
           reasoning |-> r.aiDetection.reasoning],
   recommendations |-> r.recommendations]

\* exportResults leaving out the detections found by the heuristic alone
exportResults_RuleDetections(results) ==
  LET HasRule(r) == r.ruleMatches # <<>>
      kept == SelectSeq(results, HasRule)
  IN [timestamp |-> "toISOString", url |-> "href",
      detections |-> [i \in 1..Len(kept) |-> ExportDetection(kept[i])],
      summary |-> generateSummary(results)]

\* the document exportResults writes for the results array; timestamp and
\* url are readings of the host
exportResults(results) ==
  [timestamp |-> "toISOString", url |-> "href",
   detections |-> [i \in 1..Len(results) |-> ExportDetection(results[i])],
   summary |-> generateSummary(results)]

\* (num / den).toFixed(2) for den > 0: the decimal string with two
\* fraction digits, held as its number of hundredths
QuotientToFixed2(num, den) ==
  [toFixed |-> (2 * num + den * Hundredth) \div (2 * den * Hundredth)]

\* getStatistics for the results array: bySeverity has a key for each
\* severity that occurs
getStatistics(results) ==
  LET n == Len(results)
      Count(v) == Cardinality({i \in 1..n : results[i].severity = v})
      sum == SumSeq([i \in 1..n |-> results[i].confidence])
      anyNaN == \E i \in 1..n : results[i].confidence = NaN
  IN [total |-> n,
      bySeverity |-> [v \in {results[i].severity : i \in 1..n} |-> Count(v)],
      avgConfidence |-> IF n = 0 THEN 0
                        ELSE IF anyNaN THEN [toFixed |-> NaN]
                        ELSE QuotientToFixed2(sum, n)]

\* ------------------------------------------------------------ elements
Body == [svg |-> FALSE, kw |-> {}]
SvgRoot == [svg |-> TRUE, kw |-> {}]
Black == <<0, 0, 0>>
White == <<255, 255, 255>>
LightGray == <<200, 200, 200>>

\* a div with plain text and default styles
PlainDiv ==
  [tag |-> "DIV", matches |-> {}, manipText |-> FALSE,
   textHit |-> {}, chkTrue |-> {}, chkThrow |-> {},
   negative |-> FALSE, urgent |-> FALSE, numbers |-> FALSE, manipHits |-> 0,
   opacity |-> 100, color |-> Black, background |-> White,
   position |-> "static", zIndex |-> NaN, pointerNone |-> FALSE,
   onclick |-> FALSE, cursorPointer |-> FALSE, hasId |-> FALSE,
   containsControls |-> FALSE, checkedInput |-> FALSE, timer |-> FALSE,
   ancestors |-> <<Body>>, onload |-> FALSE, rendered |-> TRUE]

\* <button class="btn">OK</button>
PlainButton ==
  [PlainDiv EXCEPT !.tag = "BUTTON", !.matches = {"button", ".btn"}]

\* a decline button with guilt-inducing text, not displayed
ShameButton ==
  [PlainDiv EXCEPT !.tag = "BUTTON", !.matches = {"button"},
                   !.textHit = {"confirmshaming"}, !.negative = TRUE,
                   !.manipHits = 2, !.rendered = FALSE]

\* <div class="promo limited-offer">Hurry, only 3 left in stock</div>
UrgencyBox ==
  [PlainDiv EXCEPT !.matches = {"[class*=\"limited\"]", ".promo"},
                   !.manipText = TRUE, !.textHit = {"urgency-countdown"},
                   !.chkTrue = {"scarcity-stock"},
                   !.urgent = TRUE, !.numbers = TRUE]

\* <a onclick=... style="opacity: 0.3">
FadedLink ==
  [PlainDiv EXCEPT !.tag = "A", !.matches = {"a", "[onclick]"},
                   !.onclick = TRUE, !.opacity = 30]

\* an <a> directly below an <svg>: className is an SVGAnimatedString
SvgLink ==
  [PlainDiv EXCEPT !.tag = "a", !.matches = {"a"},
                   !.textHit = {"roach-motel"},
                   !.chkThrow = {"disguised-ads"},
                   !.ancestors = <<SvgRoot, Body>>]

\* "No thanks, I hate saving money"
DeclineText ==
  << "N", "o", " ", "t", "h", "a", "n", "k", "s", ",", " ", "I", " ", "h",
     "a", "t", "e", " ", "s", "a", "v", "i", "n", "g", " ", "m", "o", "n",
     "e", "y" >>

\* <button>No thanks, I hate saving money</button> with default styles
\* and a font size of 14px or more; no pattern of another rule occurs in
\* the text and no other predicate holds
DeclineButton ==
  LET t == TextOf("BUTTON", DeclineText)
  IN [PlainDiv EXCEPT !.tag = "BUTTON", !.matches = {"button"},
                      !.textHit = t.textHit, !.chkTrue = t.chkTrue,
                      !.negative = t.negative, !.urgent = t.urgent,
                      !.numbers = t.numbers, !.manipHits = t.manipHits]

\* "Subscribe to marketing newsletter"
NewsletterLabel ==
  << "S", "u", "b", "s", "c", "r", "i", "b", "e", " ", "t", "o", " ", "m",
     "a", "r", "k", "e", "t", "i", "n", "g", " ", "n", "e", "w", "s", "l",
     "e", "t", "t", "e", "r" >>

\* <label><input type="checkbox" checked> Subscribe to marketing
\* newsletter</label>: the input has no text of its own
NewsletterCheckbox ==
  [PlainDiv EXCEPT !.tag = "INPUT", !.matches = {"input"},
                   !.chkTrue =
                     IF preselectionCheck("INPUT", "checkbox", TRUE, <<>>,
                                          <<NewsletterLabel>>)
                     THEN {"preselection"} ELSE {},
                   !.ancestors = <<Body, Body>>]

\* the elements of the worked scenarios
Scenarios == {DeclineButton, NewsletterCheckbox}

\* the elements a document is drawn from, in document order
MasterDocument == <<UrgencyBox, PlainButton, ShameButton, FadedLink, SvgLink>>

\* the subsequences of d with at most n elements
RECURSIVE SubSeqsUpTo(_, _)
SubSeqsUpTo(d, n) ==
  IF d = <<>> \/ n = 0 THEN {<<>>}
  ELSE SubSeqsUpTo(Tail(d), n)
       \cup {<<Head(d)>> \o q : q \in SubSeqsUpTo(Tail(d), n - 1)}

Pages == SubSeqsUpTo(MasterDocument, MaxPage)

\* <form> whose text has a countdown, a guilt-inducing decline option, a
\* fee note, a "sponsored" label and a cancellation note
PromoForm ==
  [PlainDiv EXCEPT !.tag = "FORM", !.matches = {"form"},
                   !.textHit = {"urgency-countdown", "confirmshaming",
                                "hidden-costs", "disguised-ads",
                                "roach-motel"},
                   !.containsControls = TRUE, !.urgent = TRUE]

\* <a> of a trial offer: renewal terms, a double negative and a
\* cancellation note
TrialLink ==
  [PlainDiv EXCEPT !.tag = "A", !.matches = {"a"},
                   !.textHit = {"forced-continuity", "trick-question",
                                "roach-motel"}]

\* <div class="popup"> with a stock claim, purchase notices, a sign-up
\* demand and an oversized accept button
ReviewPopup ==
  [PlainDiv EXCEPT !.matches = {"[class*=\"popup\"]"},
                   !.textHit = {"scarcity-stock", "fake-social-proof",
                                "forced-enrollment"},
                   !.chkTrue = {"visual-prominence"}, !.numbers = TRUE]

\* the elements of documents with matches of many categories
SummaryElements == {PromoForm, TrialLink, ReviewPopup, UrgencyBox}

\* the documents of at most n of these elements, in any order
RECURSIVE SeqsUpTo(_, _)
SeqsUpTo(S, n) ==
  IF n = 0 THEN {<<>>}
  ELSE SeqsUpTo(S, n - 1)
       \cup {Append(q, e) : q \in SeqsUpTo(S, n - 1), e \in S}

SummaryPages == SeqsUpTo(SummaryElements, MaxPage)

\* --------------------------------------------------------------- state
VARIABLES
  dom,                \* the document: its elements in document order
  config,             \* DarkPatternDetector.config
  suspicionThreshold, \* AIDetector.suspicionThreshold
  heap,               \* the result arrays allocated so far, by array id
  detectionResults,   \* DarkPatternDetector.detectionResults: an array id
  pc,                 \* per call: where the call is suspended
  allElements,        \* scanPage: the candidate list
  idx,                \* scanPage: position of the for..of loop
  element,            \* analyzeElement: the element being analysed
  ruleResults,        \* analyzeElement: ruleResults
  aiResult,           \* analyzeElement: aiResult (or the pending rejection)
  result,             \* what analyzeElement returned (or threw)
  report,             \* what scanPage returned
  nSets,              \* setter calls made so far
  style,              \* per element of the document: the outline and
                      \* outline-offset the engine wrote, "" when none
  badges,             \* the .dark-pattern-badge elements of the document
  exported,           \* what exportResults returned last, parsed
  observer,           \* DarkPatternMonitor.observer
  records,            \* the observer's queue of mutation records
  debounceTimer,      \* the pending timeout: the batch its callback holds
  scanning,           \* scanNewElements in progress: batch and position
  title               \* per element of the document: its title

vars == <<dom, config, suspicionThreshold, heap, detectionResults, pc,
          allElements, idx, element, ruleResults, aiResult, result, report,
          nSets, style, badges, exported, observer, records,
          debounceTimer, scanning, title>>

\* the state of the host document and of the caller, which the scanning
\* operations leave alone
host == <<style, badges, exported, observer, records, debounceTimer,
          scanning, title>>

\* the state of DarkPatternMonitor and the titles it writes
monitor == <<observer, records, debounceTimer, scanning, title>>

\* call frames: 1..MaxScans are the scanPage calls in the order they
\* start, Direct is a call of analyzeElement from outside
Scans == 1..MaxScans
Direct == 0
Frames == {Direct} \cup Scans

NoElement == [ref |-> 0, none |-> TRUE]

DefaultConfig ==
  [enableRuleBased |-> TRUE, enableAIBased |-> TRUE,
   minConfidence |-> Dec(50), scanDepth |-> "full",
   excludeSelectors |-> <<".dark-pattern-badge">>]

DefaultThreshold == Dec(60)

\* element.style without an outline
NoOutline == [outline |-> "", outlineOffset |-> ""]

InitWith(d) ==
  /\ dom = d
  /\ config = DefaultConfig
  /\ suspicionThreshold = DefaultThreshold
  /\ heap = [a \in Frames |-> <<>>]
  /\ detectionResults = 0
  /\ pc = [f \in Frames |-> "idle"]
  /\ allElements = [f \in Frames |-> <<>>]
  /\ idx = [f \in Frames |-> 0]
  /\ element = [f \in Frames |-> NoElement]
  /\ ruleResults = [f \in Frames |-> <<>>]
  /\ aiResult = [f \in Frames |-> Null]
  /\ result = [f \in Frames |-> Null]
  /\ report = [f \in Frames |-> Null]
  /\ nSets = 0
  /\ style = [i \in 1..Len(d) |-> NoOutline]
  /\ badges = <<>>
  /\ exported = Null
  /\ observer = Null
  /\ records = <<>>
  /\ debounceTimer = Null
  /\ scanning = Null
  /\ title = [i \in 1..Len(d) |-> ""]

Init == \E d \in Pages : InitWith(d)

InFlight(f) == pc[f] \in {"awaitAI", "awaitAnalyze"}
Quiet == \A f \in Frames : ~InFlight(f)

\* ------------------------------------------------------------- actions
\* BeginAnalyze answering "not detected" for an element that is already
\* among the detections of detectionResults
BeginAnalyze_SkipReported(ref, e) ==
  LET rr == IF config.enableRuleBased THEN applyRules(e) ELSE <<>>
      reported == \E j \in 1..Len(heap[detectionResults]) :
                    heap[detectionResults][j].element = ref
  IN IF reported
     THEN [pc |-> "awaitAnalyze", ruleResults |-> <<>>, aiResult |-> Null,
           result |-> [detected |-> FALSE]]
     ELSE IF config.enableAIBased
     THEN [pc |-> "awaitAI", ruleResults |-> rr,
           aiResult |-> detect(e, suspicionThreshold), result |-> Null]
     ELSE [pc |-> "awaitAnalyze", ruleResults |-> rr, aiResult |-> Null,
           result |-> Combine(ref, e, rr, Null)]

\* BeginAnalyze applying the rules whatever config.enableRuleBased says
BeginAnalyze_AlwaysRules(ref, e) ==
  LET rr == applyRules(e)
  IN IF config.enableAIBased
     THEN [pc |-> "awaitAI", ruleResults |-> rr,
           aiResult |-> detect(e, suspicionThreshold), result |-> Null]
     ELSE [pc |-> "awaitAnalyze", ruleResults |-> rr, aiResult |-> Null,
           result |-> Combine(ref, e, rr, Null)]

\* analyzeElement up to its first suspension, for element e with
\* reference ref: the new pc, ruleResults, aiResult and result
BeginAnalyze(ref, e) ==
  LET rr == IF config.enableRuleBased THEN applyRules(e) ELSE <<>>
  IN IF config.enableAIBased
     THEN [pc |-> "awaitAI", ruleResults |-> rr,
           aiResult |-> detect(e, suspicionThreshold), result |-> Null]
     ELSE [pc |-> "awaitAnalyze", ruleResults |-> rr, aiResult |-> Null,
           result |-> Combine(ref, e, rr, Null)]

\* analyzeElement resumes after await aiDetector.detect(element)
AnalyzeResume(f) ==
  /\ pc[f] = "awaitAI"
  /\ result' = [result EXCEPT ![f] =
                  IF IsThrow(aiResult[f]) THEN Throw
                  ELSE Combine(element[f].ref, element[f].el,
                               ruleResults[f], aiResult[f])]
  /\ pc' = [pc EXCEPT ![f] = "awaitAnalyze"]
  /\ UNCHANGED <<host, dom, config, suspicionThreshold, heap, detectionResults,
                 allElements, idx, element, ruleResults, aiResult, report,
                 nSets>>

\* LoopFrom reporting the size of the document as totalElements
LoopFrom_CountsDocument(s, all, i, h) ==
  IF i <= Len(all)
  THEN LET b == BeginAnalyze(all[i], dom[all[i]])
       IN /\ pc' = [pc EXCEPT ![s] = b.pc]
          /\ idx' = [idx EXCEPT ![s] = i]
          /\ allElements' = [allElements EXCEPT ![s] = all]
          /\ element' = [element EXCEPT ![s] =
                           [ref |-> all[i], el |-> dom[all[i]]]]
          /\ ruleResults' = [ruleResults EXCEPT ![s] = b.ruleResults]
          /\ aiResult' = [aiResult EXCEPT ![s] = b.aiResult]
          /\ result' = [result EXCEPT ![s] = b.result]
          /\ report' = report
  ELSE /\ pc' = [pc EXCEPT ![s] = "done"]
       /\ idx' = [idx EXCEPT ![s] = 0]
       /\ allElements' = [allElements EXCEPT ![s] = <<>>]
       /\ element' = [element EXCEPT ![s] = NoElement]
       /\ ruleResults' = [ruleResults EXCEPT ![s] = <<>>]
       /\ aiResult' = [aiResult EXCEPT ![s] = Null]
       /\ result' = [result EXCEPT ![s] = Null]
       /\ report' = [report EXCEPT ![s] =
                       [totalElements |-> Len(dom),
                        detections |-> detectionResults',
                        summary |-> generateSummary(h)]]

\* the for..of loop of scanPage at position i with result array contents
\* h: either the next analyzeElement call or, past the last candidate,
\* the summary and the returned report
LoopFrom(s, all, i, h) ==
  IF i <= Len(all)
  THEN LET b == BeginAnalyze(all[i], dom[all[i]])
       IN /\ pc' = [pc EXCEPT ![s] = b.pc]
          /\ idx' = [idx EXCEPT ![s] = i]
          /\ allElements' = [allElements EXCEPT ![s] = all]
          /\ element' = [element EXCEPT ![s] =
                           [ref |-> all[i], el |-> dom[all[i]]]]
          /\ ruleResults' = [ruleResults EXCEPT ![s] = b.ruleResults]
          /\ aiResult' = [aiResult EXCEPT ![s] = b.aiResult]
          /\ result' = [result EXCEPT ![s] = b.result]
          /\ report' = report
  ELSE /\ pc' = [pc EXCEPT ![s] = "done"]
       /\ idx' = [idx EXCEPT ![s] = 0]
       /\ allElements' = [allElements EXCEPT ![s] = <<>>]
       /\ element' = [element EXCEPT ![s] = NoElement]
       /\ ruleResults' = [ruleResults EXCEPT ![s] = <<>>]
       /\ aiResult' = [aiResult EXCEPT ![s] = Null]
       /\ result' = [result EXCEPT ![s] = Null]
       /\ report' = [report EXCEPT ![s] =
                       [totalElements |-> Len(all),
                        detections |-> detectionResults',
                        summary |-> generateSummary(h)]]

\* ScanStart without the assignment that clears detectionResults
ScanStart_NoClear(s) ==
  /\ pc[s] = "idle"
  /\ \A t \in Scans : t < s => pc[t] # "idle"
  /\ Quiet
  /\ detectionResults' = detectionResults
  /\ heap' = heap
  /\ LoopFrom(s, getAllRelevantElements(dom, config.excludeSelectors), 1,
              heap[detectionResults])
  /\ UNCHANGED <<host, dom, config, suspicionThreshold, nSets>>

\* scanPage is called: results cleared, candidates enumerated, and the
\* loop entered
ScanStart(s) ==
  /\ pc[s] = "idle"
  /\ \A t \in Scans : t < s => pc[t] # "idle"
  /\ Quiet
  /\ detectionResults' = s
  /\ heap' = [heap EXCEPT ![s] = <<>>]
  /\ LoopFrom(s, getAllRelevantElements(dom, config.excludeSelectors), 1,
              <<>>)
  /\ UNCHANGED <<host, dom, config, suspicionThreshold, nSets>>

\* ScanResume keeping only detections of at least config.minConfidence
ScanResume_MinConfidence(s) ==
  /\ s \in Scans
  /\ pc[s] = "awaitAnalyze"
  /\ IF IsThrow(result[s])
     THEN /\ pc' = [pc EXCEPT ![s] = "rejected"]
          /\ idx' = [idx EXCEPT ![s] = 0]
          /\ allElements' = [allElements EXCEPT ![s] = <<>>]
          /\ element' = [element EXCEPT ![s] = NoElement]
          /\ ruleResults' = [ruleResults EXCEPT ![s] = <<>>]
          /\ aiResult' = [aiResult EXCEPT ![s] = Null]
          /\ result' = [result EXCEPT ![s] = Null]
          /\ UNCHANGED <<heap, detectionResults, report>>
     ELSE /\ heap' = IF result[s].detected
                        /\ result[s].confidence >= config.minConfidence
                     THEN [heap EXCEPT ![detectionResults] =
                             Append(@, result[s])]
                     ELSE heap
          /\ detectionResults' = detectionResults
          /\ LoopFrom(s, allElements[s], idx[s] + 1,
                      heap'[detectionResults])
  /\ UNCHANGED <<host, dom, config, suspicionThreshold, nSets>>

\* ScanResume putting a detection in front of the earlier ones
ScanResume_Unshift(s) ==
  /\ s \in Scans
  /\ pc[s] = "awaitAnalyze"
  /\ IF IsThrow(result[s])
     THEN /\ pc' = [pc EXCEPT ![s] = "rejected"]
          /\ idx' = [idx EXCEPT ![s] = 0]
          /\ allElements' = [allElements EXCEPT ![s] = <<>>]
          /\ element' = [element EXCEPT ![s] = NoElement]
          /\ ruleResults' = [ruleResults EXCEPT ![s] = <<>>]
          /\ aiResult' = [aiResult EXCEPT ![s] = Null]
          /\ result' = [result EXCEPT ![s] = Null]
          /\ UNCHANGED <<heap, detectionResults, report>>
     ELSE /\ heap' = IF result[s].detected
                     THEN [heap EXCEPT ![detectionResults] =
                             <<result[s]>> \o @]
                     ELSE heap
          /\ detectionResults' = detectionResults
          /\ LoopFrom(s, allElements[s], idx[s] + 1,
                      heap'[detectionResults])
  /\ UNCHANGED <<host, dom, config, suspicionThreshold, nSets>>

\* scanPage resumes after await this.analyzeElement(element)
ScanResume(s) ==
  /\ s \in Scans
  /\ pc[s] = "awaitAnalyze"
  /\ IF IsThrow(result[s])
     THEN /\ pc' = [pc EXCEPT ![s] = "rejected"]
          /\ idx' = [idx EXCEPT ![s] = 0]
          /\ allElements' = [allElements EXCEPT ![s] = <<>>]
          /\ element' = [element EXCEPT ![s] = NoElement]
          /\ ruleResults' = [ruleResults EXCEPT ![s] = <<>>]
          /\ aiResult' = [aiResult EXCEPT ![s] = Null]
          /\ result' = [result EXCEPT ![s] = Null]
          /\ UNCHANGED <<heap, detectionResults, report>>
     ELSE /\ heap' = IF result[s].detected
                     THEN [heap EXCEPT ![detectionResults] =
                             Append(@, result[s])]
                     ELSE heap
          /\ detectionResults' = detectionResults
          /\ LoopFrom(s, allElements[s], idx[s] + 1,
                      heap'[detectionResults])
  /\ UNCHANGED <<host, dom, config, suspicionThreshold, nSets>>

\* analyzeElement is called from outside on element e with reference ref
AnalyzeOf(ref, e) ==
  /\ pc[Direct] = "idle"
  /\ Quiet
  /\ LET b == BeginAnalyze(ref, e)
     IN /\ pc' = [pc EXCEPT ![Direct] = b.pc]
        /\ element' = [element EXCEPT ![Direct] = [ref |-> ref, el |-> e]]
        /\ ruleResults' = [ruleResults EXCEPT ![Direct] = b.ruleResults]
        /\ aiResult' = [aiResult EXCEPT ![Direct] = b.aiResult]
        /\ result' = [result EXCEPT ![Direct] = b.result]
  /\ UNCHANGED <<host, dom, config, suspicionThreshold, heap, detectionResults,
                 allElements, idx, report, nSets>>

\* ... on element i of the document
AnalyzeCall(i) == i \in 1..Len(dom) /\ AnalyzeOf(i, dom[i])

\* ... on an element that is not in the scanned document
AnalyzeAny(e) == AnalyzeOf(0, e)

\* AnalyzeReturn recording a detection in detectionResults
AnalyzeReturn_Record ==
  /\ pc[Direct] = "awaitAnalyze"
  /\ pc' = [pc EXCEPT ![Direct] = "idle"]
  /\ element' = [element EXCEPT ![Direct] = NoElement]
  /\ ruleResults' = [ruleResults EXCEPT ![Direct] = <<>>]
  /\ aiResult' = [aiResult EXCEPT ![Direct] = Null]
  /\ result' = [result EXCEPT ![Direct] = Null]
  /\ heap' = IF ~IsThrow(result[Direct]) /\ result[Direct].detected
             THEN [heap EXCEPT ![detectionResults] =
                     Append(@, result[Direct])]
             ELSE heap
  /\ UNCHANGED <<host, dom, config, suspicionThreshold, detectionResults,
                 allElements, idx, report, nSets>>

\* the outside caller takes the result (or the exception)
AnalyzeReturn ==
  /\ pc[Direct] = "awaitAnalyze"
  /\ pc' = [pc EXCEPT ![Direct] = "idle"]
  /\ element' = [element EXCEPT ![Direct] = NoElement]
  /\ ruleResults' = [ruleResults EXCEPT ![Direct] = <<>>]
  /\ aiResult' = [aiResult EXCEPT ![Direct] = Null]
  /\ result' = [result EXCEPT ![Direct] = Null]
  /\ UNCHANGED <<host, dom, config, suspicionThreshold, heap, detectionResults,
                 allElements, idx, report, nSets>>

\* { ...this.config, ...newConfig }
MergeConfig(old, newConfig) ==
  [k \in DOMAIN old \cup DOMAIN newConfig |->
     IF k \in DOMAIN newConfig THEN newConfig[k] ELSE old[k]]

ExcludeChoices ==
  {<<".promo">>, <<".dark-pattern-badge", "[[[">>, <<".btn", "button", "a">>}

ConfigPatches ==
  {[enableRuleBased |-> b] : b \in BOOLEAN}
  \cup {[enableAIBased |-> b] : b \in BOOLEAN}
  \cup {[excludeSelectors |-> x] : x \in ExcludeChoices}
  \cup {[enableRuleBased |-> FALSE, enableAIBased |-> FALSE]}

SetConfig(newConfig) ==
  /\ Quiet
  /\ nSets < MaxSets
  /\ config' = MergeConfig(config, newConfig)
  /\ config' # config
  /\ nSets' = nSets + 1
  /\ UNCHANGED <<host, dom, suspicionThreshold, heap, detectionResults, pc,
                 allElements, idx, element, ruleResults, aiResult, result,
                 report>>

ThresholdInputs == {0 - Dec(50), Dec(75), Dec(150)}

SetSuspicionThreshold(threshold) ==
  /\ Quiet
  /\ nSets < MaxSets
  /\ suspicionThreshold' = ClampThreshold(threshold)
  /\ nSets' = nSets + 1
  /\ UNCHANGED <<host, dom, config, heap, detectionResults, pc, allElements, idx,
                 element, ruleResults, aiResult, result, report>>

Next ==
  \/ \E s \in Scans : ScanStart(s)
  \/ \E s \in Scans : ScanResume(s)
  \/ \E f \in Frames : AnalyzeResume(f)
  \/ \E i \in 1..MaxPage : AnalyzeCall(i)
  \/ AnalyzeReturn
  \/ \E c \in ConfigPatches : SetConfig(c)
  \/ \E t \in ThresholdInputs : SetSuspicionThreshold(t)

\* the engine in sequential use: every call of the public surface runs to
\* completion before the next call is made
Spec == Init /\ [][Next]_vars

\* ---------------------------------------------- presentation, export
\* highlightDetections: old badges removed, then outline and badge for
\* every visible detection of detectionResults
HighlightDetections ==
  /\ Quiet
  /\ LET h == HighlightEach(dom, heap[detectionResults], 1, style, <<>>)
     IN /\ style' = h.style
        /\ badges' = h.badges
  /\ UNCHANGED <<monitor, exported, dom, config, suspicionThreshold, heap,
                 detectionResults, pc, allElements, idx, element,
                 ruleResults, aiResult, result, report, nSets>>

\* removeHighlights: outline cleared on the elements of detectionResults,
\* all badges removed
RemoveHighlights ==
  /\ Quiet
  /\ style' = ClearEach(heap[detectionResults], 1, style)
  /\ badges' = <<>>
  /\ UNCHANGED <<monitor, exported, dom, config, suspicionThreshold, heap,
                 detectionResults, pc, allElements, idx, element,
                 ruleResults, aiResult, result, report, nSets>>

\* exportResults, and the caller parsing what it returned
ExportResults ==
  /\ Quiet
  /\ exported' = exportResults(heap[detectionResults])
  /\ UNCHANGED <<monitor, style, badges, dom, config, suspicionThreshold, heap,
                 detectionResults, pc, allElements, idx, element,
                 ruleResults, aiResult, result, report, nSets>>

NextHost ==
  \/ \E s \in Scans : ScanStart(s)
  \/ \E s \in Scans : ScanResume(s)
  \/ \E f \in Frames : AnalyzeResume(f)
  \/ \E i \in 1..MaxPage : AnalyzeCall(i)
  \/ AnalyzeReturn
  \/ \E c \in ConfigPatches : SetConfig(c)
  \/ \E t \in ThresholdInputs : SetSuspicionThreshold(t)
  \/ HighlightDetections
  \/ RemoveHighlights
  \/ ExportResults

\* the engine with its presentation and export operations, in sequential
\* use
SpecHost == Init /\ [][NextHost]_vars

NextExport ==
  \/ \E s \in Scans : ScanStart(s)
  \/ \E s \in Scans : ScanResume(s)
  \/ \E s \in Scans : AnalyzeResume(s)
  \/ \E c \in ConfigPatches : SetConfig(c)
  \/ \E t \in ThresholdInputs : SetSuspicionThreshold(t)
  \/ ExportResults

\* scans and exports of their results
SpecExport == Init /\ [][NextExport]_vars

\* scanPage is called while an earlier scanPage call is suspended at an
\* await
ScanOverlap(s) ==
  /\ pc[s] = "idle"
  /\ \A t \in Scans : t < s => pc[t] # "idle"
  /\ \E t \in Scans : InFlight(t)
  /\ detectionResults' = s
  /\ heap' = [heap EXCEPT ![s] = <<>>]
  /\ LoopFrom(s, getAllRelevantElements(dom, config.excludeSelectors), 1,
              <<>>)
  /\ UNCHANGED <<host, dom, config, suspicionThreshold, nSets>>

NextOverlap ==
  \/ \E s \in Scans : ScanStart(s)
  \/ \E s \in Scans : ScanOverlap(s)
  \/ \E s \in Scans : ScanResume(s)
  \/ \E s \in Scans : AnalyzeResume(s)

\* scanPage calls that may overlap
SpecOverlap == Init /\ [][NextOverlap]_vars

InitSummary == \E d \in SummaryPages : InitWith(d)

NextSummary ==
  \/ \E s \in Scans : ScanStart(s)
  \/ \E s \in Scans : ScanResume(s)
  \/ \E s \in Scans : AnalyzeResume(s)

\* scans of documents whose elements match rules of many categories
SpecSummary == InitSummary /\ [][NextSummary]_vars

\* ------------------------------------------------- DarkPatternMonitor
(***************************************************************************)
(* The monitor of the integration examples, on a document whose body is    *)
(* empty when the monitor is created.  Nodes are added by the page; the    *)
(* observer's callback is delivered with the records queued since the last *)
(* delivery; the timeout fires when 500 ms have passed without another     *)
(* delivery.  scanNewElements suspends only on promises that are already   *)
(* settled, so a timeout never fires while it is in progress.              *)
(***************************************************************************)
\* a text node
TextNode == [nodeType |-> "TEXT_NODE"]

\* node.nodeType === Node.ELEMENT_NODE
IsElementNode(node) == "tag" \in DOMAIN node

\* the nodes the page adds
MonitorNodes == {FadedLink, PlainButton, TextNode}

\* the addedNodes of the records of a batch, in the order of the two
\* for..of loops of scanNewElements
RECURSIVE AddedNodes(_)
AddedNodes(mutations) ==
  IF mutations = <<>> THEN <<>>
  ELSE Head(mutations).addedNodes \o AddedNodes(Tail(mutations))

\* handleDetection: the styles and titles after the outline and the
\* title of result.element are written
HandleDetection(r) ==
  [style |-> [style EXCEPT ![r.element].outline = "3px solid red"],
   title |-> [title EXCEPT ![r.element] =
                <<"Dark Pattern: ",
                  [i \in 1..Len(r.ruleMatches) |->
                     r.ruleMatches[i].ruleName]>>]]

\* the loops of scanNewElements from the k-th added node of the batch on:
\* the analyzeElement call for the next element node or, past the last
\* one, the end of scanNewElements; what scanning and the frame of the
\* call become
ScanNewFrom(mutations, k) ==
  LET nodes == AddedNodes(mutations)
      rest == {j \in k..Len(nodes) : IsElementNode(dom[nodes[j]])}
  IN IF rest = {}
     THEN [scanning |-> Null, pc |-> "idle", element |-> NoElement,
           ruleResults |-> <<>>, aiResult |-> Null, result |-> Null]
     ELSE LET j == CHOOSE x \in rest : \A y \in rest : x <= y
              ref == nodes[j]
              Call(b) ==
                [scanning |-> [mutations |-> mutations, k |-> j],
                 pc |-> b.pc, element |-> [ref |-> ref, el |-> dom[ref]],
                 ruleResults |-> b.ruleResults, aiResult |-> b.aiResult,
                 result |-> b.result]
          IN CHOOSE c \in {Call(b) : b \in {BeginAnalyze(ref, dom[ref])}} :
               TRUE

\* scanNewElements ends with an exception
ScanNewRejected ==
  [scanning |-> Null, pc |-> "idle", element |-> NoElement,
   ruleResults |-> <<>>, aiResult |-> Null, result |-> Null]

\* start(): the observer is created and observes document.body
MonitorStart ==
  /\ IsNull(observer)
  /\ observer' = [observing |-> TRUE]
  /\ UNCHANGED <<records, debounceTimer, scanning, title, style, badges,
                 exported, dom, config, suspicionThreshold, heap,
                 detectionResults, pc, allElements, idx, element,
                 ruleResults, aiResult, result, report, nSets>>

\* the page adds nodes below document.body in one operation; an observer
\* that is observing gets a record
AddNodes(nodes) ==
  /\ ~IsNull(observer)
  /\ nodes # <<>>
  /\ Len(dom) + Len(nodes) <= MaxNodes
  /\ dom' = dom \o nodes
  /\ style' = style \o [i \in 1..Len(nodes) |-> NoOutline]
  /\ title' = title \o [i \in 1..Len(nodes) |-> ""]
  /\ records' = IF observer.observing
                THEN Append(records,
                            [addedNodes |->
                               [i \in 1..Len(nodes) |-> Len(dom) + i]])
                ELSE records
  /\ UNCHANGED <<observer, debounceTimer, scanning, badges, exported,
                 config, suspicionThreshold, heap, detectionResults, pc,
                 allElements, idx, element, ruleResults, aiResult, result,
                 report, nSets>>

\* the observer's callback with the queued records: the pending timeout
\* is cleared and one for this batch is set
ObserverCallback ==
  /\ ~IsNull(observer)
  /\ observer.observing
  /\ records # <<>>
  /\ debounceTimer' = [mutations |-> records]
  /\ records' = <<>>
  /\ UNCHANGED <<observer, scanning, title, style, badges, exported, dom,
                 config, suspicionThreshold, heap, detectionResults, pc,
                 allElements, idx, element, ruleResults, aiResult, result,
                 report, nSets>>

\* the timeout fires: scanNewElements(mutations) runs up to its first
\* await
TimerFires ==
  /\ ~IsNull(debounceTimer)
  /\ IsNull(scanning)
  /\ pc[Direct] = "idle"
  /\ debounceTimer' = Null
  /\ \E n \in {ScanNewFrom(debounceTimer.mutations, 1)} :
        /\ scanning' = n.scanning
        /\ pc' = [pc EXCEPT ![Direct] = n.pc]
        /\ element' = [element EXCEPT ![Direct] = n.element]
        /\ ruleResults' = [ruleResults EXCEPT ![Direct] = n.ruleResults]
        /\ aiResult' = [aiResult EXCEPT ![Direct] = n.aiResult]
        /\ result' = [result EXCEPT ![Direct] = n.result]
  /\ UNCHANGED <<observer, records, title, style, badges, exported, dom,
                 config, suspicionThreshold, heap, detectionResults,
                 allElements, idx, report, nSets>>

\* scanNewElements resumes after await this.detector.analyzeElement(node)
ScanNewResume ==
  /\ ~IsNull(scanning)
  /\ pc[Direct] = "awaitAnalyze"
  /\ \E n \in {IF IsThrow(result[Direct]) THEN ScanNewRejected
                ELSE ScanNewFrom(scanning.mutations, scanning.k + 1)} :
        /\ IF ~IsThrow(result[Direct]) /\ result[Direct].detected
           THEN /\ style' = HandleDetection(result[Direct]).style
                /\ title' = HandleDetection(result[Direct]).title
           ELSE UNCHANGED <<style, title>>
        /\ scanning' = n.scanning
        /\ pc' = [pc EXCEPT ![Direct] = n.pc]
        /\ element' = [element EXCEPT ![Direct] = n.element]
        /\ ruleResults' = [ruleResults EXCEPT ![Direct] = n.ruleResults]
        /\ aiResult' = [aiResult EXCEPT ![Direct] = n.aiResult]
        /\ result' = [result EXCEPT ![Direct] = n.result]
  /\ UNCHANGED <<observer, records, debounceTimer, badges, exported, dom,
                 config, suspicionThreshold, heap, detectionResults,
                 allElements, idx, report, nSets>>

\* stop(): the observer is disconnected, which empties its record queue
MonitorStop ==
  /\ ~IsNull(observer)
  /\ observer.observing
  /\ observer' = [observing |-> FALSE]
  /\ records' = <<>>
  /\ UNCHANGED <<debounceTimer, scanning, title, style, badges, exported,
                 dom, config, suspicionThreshold, heap, detectionResults, pc,
                 allElements, idx, element, ruleResults, aiResult, result,
                 report, nSets>>

\* the batches of nodes one operation of the page adds
NodeBatches == SeqsUpTo(MonitorNodes, 2) \ {<<>>}

InitMonitor == InitWith(<<>>)

NextMonitor ==
  \/ MonitorStart
  \/ \E nodes \in NodeBatches : AddNodes(nodes)
  \/ ObserverCallback
  \/ TimerFires
  \/ AnalyzeResume(Direct)
  \/ ScanNewResume
  \/ MonitorStop

\* the monitor from its construction on, with stop()
SpecMonitor == InitMonitor /\ [][NextMonitor]_vars

\* the steps the event loop takes when they are ready: a queued record
\* is delivered, a pending timeout fires unless it is cleared, a settled
\* promise resumes its awaiter
EventLoop ==
  \/ ObserverCallback
  \/ TimerFires
  \/ AnalyzeResume(Direct)
  \/ ScanNewResume

NextWatching ==
  \/ MonitorStart
  \/ \E nodes \in NodeBatches : AddNodes(nodes)
  \/ EventLoop

\* the monitor started and never stopped, the page adding at most
\* MaxNodes nodes, the event loop never idle while a step is ready
SpecWatching == InitMonitor /\ [][NextWatching]_vars /\ WF_vars(EventLoop)

(***************************************************************************)
(* analyzeElement alone, on a wide range of elements.  An element is put   *)
(* together from one choice per group of reads.                            *)
(***************************************************************************)
RuleReads ==
  { [textHit |-> {}, chkTrue |-> {}, chkThrow |-> {}],
    [textHit |-> {"confirmshaming"}, chkTrue |-> {}, chkThrow |-> {}],
    [textHit |-> {}, chkTrue |-> {"visual-prominence"}, chkThrow |-> {}],
    [textHit |-> {"urgency-countdown"},
     chkTrue |-> {"scarcity-stock", "visual-prominence"}, chkThrow |-> {}],
    [textHit |-> {}, chkTrue |-> {"visual-prominence", "forced-enrollment"},
     chkThrow |-> {"hidden-costs"}],
    [textHit |-> {}, chkTrue |-> {}, chkThrow |-> {"disguised-ads"}],
    [textHit |-> {"roach-motel"}, chkTrue |-> {},
     chkThrow |-> {"roach-motel", "trick-question"}] }

TextReads ==
  { [negative |-> FALSE, urgent |-> FALSE, numbers |-> FALSE, manipHits |-> 0],
    [negative |-> TRUE, urgent |-> FALSE, numbers |-> FALSE, manipHits |-> 2],
    [negative |-> TRUE, urgent |-> TRUE, numbers |-> FALSE, manipHits |-> 1],
    [negative |-> FALSE, urgent |-> TRUE, numbers |-> TRUE, manipHits |-> 6] }

StyleReads ==
  { [opacity |-> 100, color |-> Black, background |-> White,
     position |-> "static", zIndex |-> NaN, pointerNone |-> FALSE],
    [opacity |-> 30, color |-> Black, background |-> White,
     position |-> "static", zIndex |-> NaN, pointerNone |-> FALSE],
    [opacity |-> NaN, color |-> LightGray, background |-> <<>>,
     position |-> "relative", zIndex |-> 5000, pointerNone |-> FALSE],
    [opacity |-> 100, color |-> Black, background |-> White,
     position |-> "fixed", zIndex |-> 2000, pointerNone |-> FALSE],
    [opacity |-> 100, color |-> Black, background |-> White,
     position |-> "absolute", zIndex |-> 500, pointerNone |-> FALSE],
    [opacity |-> 100, color |-> Black, background |-> White,
     position |-> "fixed", zIndex |-> 2000, pointerNone |-> TRUE] }

TagReads ==
  { [tag |-> "DIV", onclick |-> FALSE, containsControls |-> FALSE,
     checkedInput |-> FALSE, timer |-> FALSE],
    [tag |-> "BUTTON", onclick |-> FALSE, containsControls |-> FALSE,
     checkedInput |-> FALSE, timer |-> TRUE],
    [tag |-> "FORM", onclick |-> FALSE, containsControls |-> TRUE,
     checkedInput |-> TRUE, timer |-> FALSE],
    [tag |-> "SPAN", onclick |-> TRUE, containsControls |-> FALSE,
     checkedInput |-> FALSE, timer |-> FALSE] }

AncestorReads ==
  { [ancestors |-> <<Body>>, onload |-> FALSE, hasId |-> FALSE],
    [ancestors |-> <<[svg |-> FALSE, kw |-> {"modal"}], Body>>,
     onload |-> FALSE, hasId |-> FALSE],
    [ancestors |-> <<[svg |-> FALSE, kw |-> {"popup"}], Body>>,
     onload |-> TRUE, hasId |-> TRUE],
    [ancestors |-> <<SvgRoot, Body>>, onload |-> FALSE, hasId |-> FALSE],
    [ancestors |-> <<[svg |-> FALSE, kw |-> {"dialog", "overlay"}],
                     SvgRoot, Body>>,
     onload |-> TRUE, hasId |-> FALSE] }

MakeElement(r, t, v, b, c) ==
  [tag |-> b.tag, matches |-> {}, manipText |-> FALSE,
   textHit |-> r.textHit, chkTrue |-> r.chkTrue, chkThrow |-> r.chkThrow,
   negative |-> t.negative, urgent |-> t.urgent, numbers |-> t.numbers,
   manipHits |-> t.manipHits,
   opacity |-> v.opacity, color |-> v.color, background |-> v.background,
   position |-> v.position, zIndex |-> v.zIndex,
   pointerNone |-> v.pointerNone,
   onclick |-> b.onclick, cursorPointer |-> FALSE, hasId |-> c.hasId,
   containsControls |-> b.containsControls,
   checkedInput |-> b.checkedInput, timer |-> b.timer,
   ancestors |-> c.ancestors, onload |-> c.onload, rendered |-> TRUE]

AnyElement ==
  {MakeElement(r, t, v, b, c) :
     r \in RuleReads, t \in TextReads, v \in StyleReads, b \in TagReads,
     c \in AncestorReads}

\* the configurations setConfig and setSuspicionThreshold can establish
\* that analyzeElement depends on
InitAnalyze ==
  \E rb \in BOOLEAN, ab \in BOOLEAN,
     t \in {DefaultThreshold} \cup {ClampThreshold(x) : x \in ThresholdInputs} :
    /\ dom = <<>>
    /\ config = MergeConfig(DefaultConfig,
                            [enableRuleBased |-> rb, enableAIBased |-> ab])
    /\ suspicionThreshold = t
    /\ heap = [a \in Frames |-> <<>>]
    /\ detectionResults = 0
    /\ pc = [f \in Frames |-> "idle"]
    /\ allElements = [f \in Frames |-> <<>>]
    /\ idx = [f \in Frames |-> 0]
    /\ element = [f \in Frames |-> NoElement]
    /\ ruleResults = [f \in Frames |-> <<>>]
    /\ aiResult = [f \in Frames |-> Null]
    /\ result = [f \in Frames |-> Null]
    /\ report = [f \in Frames |-> Null]
    /\ nSets = 0
    /\ style = <<>>
    /\ badges = <<>>
    /\ exported = Null
    /\ observer = Null
    /\ records = <<>>
    /\ debounceTimer = Null
    /\ scanning = Null
    /\ title = <<>>

\* analyzeElement is called on any of the elements above
AnalyzeAnyElement ==
  pc[Direct] = "idle" /\ \E e \in AnyElement \cup Scenarios : AnalyzeAny(e)

NextAnalyze ==
  \/ AnalyzeAnyElement
  \/ AnalyzeResume(Direct)
  \/ AnalyzeReturn

SpecAnalyze == InitAnalyze /\ [][NextAnalyze]_vars

(***************************************************************************)
(* Properties.                                                             *)
(***************************************************************************)
\* analyzeElement has returned a result to frame f (it did not throw)
Returned(f) == pc[f] = "awaitAnalyze" /\ ~IsThrow(result[f])
\* ... and the result is a detection
Detection(f) == Returned(f) /\ result[f].detected
\* the heuristic verdict held by frame f is positive
Positive(ai) == ~IsNull(ai) /\ ai.isDarkPattern

\* C1: analyzeElement reports detected exactly when the rule-match list it
\* computed is non-empty or the heuristic verdict it obtained is positive;
\* with the rule engine disabled the list is empty and with the heuristic
\* disabled there is no verdict.
C1_DetectedIff ==
  \A f \in Frames :
    Returned(f) =>
      /\ result[f].detected
           <=> (Len(ruleResults[f]) > 0 \/ Positive(aiResult[f]))
      /\ ~config.enableRuleBased => ruleResults[f] = <<>>
      /\ ~config.enableAIBased => IsNull(aiResult[f])

\* a detection that rests on the heuristic verdict alone
C1_Witness ==
  \E f \in Frames :
    /\ Detection(f)
    /\ Len(ruleResults[f]) = 0
    /\ Positive(aiResult[f])
    /\ aiResult[f].confidence > 0

\* C2: the fused confidence is 0.6 x the mean rule-match confidence when
\* there are rule matches, plus 0.4 x the heuristic confidence when the
\* verdict is positive, with no renormalisation (stated without division:
\* both sides times 10 x the number of rule matches).
C2_FusedConfidence ==
  \A f \in Frames :
    Detection(f) =>
      LET d == result[f]
          n == Len(d.ruleMatches)
          ruleSum == SumSeq([i \in 1..n |-> d.ruleMatches[i].confidence])
          ai == IF Positive(d.aiDetection) THEN d.aiDetection.confidence
                ELSE 0
      IN IF n > 0
         THEN 10 * n * d.confidence = 6 * ruleSum + 4 * n * ai
         ELSE 10 * d.confidence = 4 * ai

\* rule matches together with a heuristic verdict that scored but stayed
\* below the threshold
C2_Witness ==
  \E f \in Frames :
    /\ Detection(f)
    /\ Len(result[f].ruleMatches) > 1
    /\ ~IsNull(result[f].aiDetection)
    /\ ~result[f].aiDetection.isDarkPattern
    /\ result[f].aiDetection.confidence > 0

\* C3: the fused confidence lies in [0, 1]; with rule matches only it is
\* 0.54, with the heuristic only it is at most 0.4.
C3_ConfidenceRange ==
  \A f \in Frames :
    Detection(f) =>
      LET d == result[f]
      IN /\ d.confidence >= 0 /\ d.confidence <= One
         /\ Len(d.ruleMatches) > 0 /\ ~Positive(d.aiDetection)
              => d.confidence = Dec(54)
         /\ Len(d.ruleMatches) = 0 => d.confidence <= Dec(40)

\* both sources contribute and several scorer conditions fired
C3_Witness ==
  \E f \in Frames :
    /\ Detection(f)
    /\ Len(result[f].ruleMatches) > 0
    /\ Positive(result[f].aiDetection)
    /\ Len(result[f].aiDetection.reasoning) >= 3
    /\ result[f].confidence > Dec(54)

HighestSeverity(severities) ==
  IF "high" \in severities THEN "high"
  ELSE IF "medium" \in severities THEN "medium" ELSE "low"

\* C4: with rule matches the severity is the highest rule severity,
\* whatever the heuristic says; without rule matches it follows the
\* heuristic confidence (> 0.8 high, > 0.6 medium, else low); a result
\* that is not a detection has no severity.
C4_Severity ==
  \A f \in Frames :
    Returned(f) =>
      IF result[f].detected
      THEN LET d == result[f]
               n == Len(d.ruleMatches)
           IN IF n > 0
              THEN d.severity =
                     HighestSeverity({d.ruleMatches[i].severity : i \in 1..n})
              ELSE d.severity =
                     (IF d.aiDetection.confidence > Dec(80) THEN "high"
                      ELSE IF d.aiDetection.confidence > Dec(60) THEN "medium"
                      ELSE "low")
      ELSE "severity" \notin DOMAIN result[f]

\* a rule-derived 'low' next to a heuristic confidence of 0.9
C4_Witness ==
  \E f \in Frames :
    /\ Detection(f)
    /\ Len(result[f].ruleMatches) > 0
    /\ result[f].severity = "low"
    /\ Positive(result[f].aiDetection)
    /\ result[f].aiDetection.confidence = Dec(90)

\* C5: no error is fatal to a scan: a scanPage call never ends with an
\* exception because a read failed during feature extraction.
C5_ScanNeverRejects ==
  \A s \in Scans : pc[s] # "rejected"

\* C6: a structural predicate that throws makes its rule a non-match and
\* nothing else: the rule matches are those of the rules whose text
\* pattern matched or whose predicate returned true, in registry order.
C6_PredicateThrow ==
  \A f \in Frames :
    (InFlight(f) /\ config.enableRuleBased
       /\ element[f].el.chkThrow # {}) =>
      LET el == element[f].el
          Hit(id) == id \in el.textHit \/ id \in (el.chkTrue \ el.chkThrow)
      IN [i \in 1..Len(ruleResults[f]) |-> ruleResults[f][i].ruleId]
           = SelectSeq([i \in 1..Len(rules) |-> rules[i].id], Hit)

\* one predicate threw and two other rules matched
C6_Witness ==
  \E f \in Frames :
    /\ InFlight(f)
    /\ element[f].el.chkThrow = {"hidden-costs"}
    /\ Len(ruleResults[f]) = 2

\* an element of the document matches a well-formed exclusion selector
Excluded(i) ==
  \E k \in 1..Len(config.excludeSelectors) :
    config.excludeSelectors[k] \in dom[i].matches

\* C7: an element matching an entry of config.excludeSelectors is never
\* in the candidate list of a scan.
C7_ExcludedNeverCandidate ==
  \A s \in Scans :
    InFlight(s) =>
      \A k \in 1..Len(allElements[s]) : ~Excluded(allElements[s][k])

\* C8: a malformed selector only removes itself: every element matching a
\* candidate selector and no well-formed exclusion selector is a candidate.
C8_MalformedOnlySkipped ==
  \A s \in Scans :
    InFlight(s) =>
      \A i \in 1..Len(dom) :
        (/\ \E k \in 1..Len(interactiveSelectors \o suspiciousSelectors) :
              (interactiveSelectors \o suspiciousSelectors)[k]
                \in dom[i].matches
         /\ ~Excluded(i))
        => \E k \in 1..Len(allElements[s]) : allElements[s][k] = i

\* what analyzeElement yields for element i of the document under the
\* configuration and threshold in force
AnalysisOf(i) ==
  Combine(i, dom[i],
          IF config.enableRuleBased THEN applyRules(dom[i]) ELSE <<>>,
          IF config.enableAIBased THEN detect(dom[i], suspicionThreshold)
          ELSE Null)

\* the detections a scan of the document yields, in candidate order
DetectionsOf(candidates) ==
  LET IsDetection(r) == r.detected
  IN SelectSeq([k \in 1..Len(candidates) |-> AnalysisOf(candidates[k])],
               IsDetection)

\* scan s returns in this step
Completes(s) == pc[s] # "done" /\ pc'[s] = "done"

\* C9: when a scan returns, detectionResults and the detections of its
\* report are exactly the detections of that scan's candidates, with
\* nothing left from earlier scans.
C9_OnlyLastScan ==
  [][\A s \in Scans :
       Completes(s) =>
         /\ detectionResults' = report'[s].detections
         /\ heap'[detectionResults'] =
              DetectionsOf(getAllRelevantElements(dom,
                                                  config.excludeSelectors))
    ]_vars

\* two scans have returned, both with detections, and they differ
C9_Witness ==
  /\ pc[1] = "done" /\ pc[2] = "done"
  /\ detectionResults = 2
  /\ Len(heap[report[1].detections]) > 0
  /\ Len(heap[report[2].detections]) > 0
  /\ heap[report[2].detections] # heap[report[1].detections]

EmptySummary ==
  [totalDetections |-> 0,
   bySeverity |-> [high |-> 0, medium |-> 0, low |-> 0],
   byCategory |-> <<>>,
   topIssues |-> <<>>]

\* C10: a scan of a page without candidates returns totalElements = 0, no
\* detections and a summary whose counts are all zero and whose category
\* table and top issues are empty.
C10_EmptyPage ==
  [][\A s \in Scans :
       (Completes(s)
          /\ getAllRelevantElements(dom, config.excludeSelectors) = <<>>) =>
         /\ report'[s].totalElements = 0
         /\ heap'[report'[s].detections] = <<>>
         /\ report'[s].summary = EmptySummary
    ]_vars

\* a scan without candidates has returned after a scan that had detections
C10_Witness ==
  /\ pc[1] = "done" /\ pc[2] = "done"
  /\ Len(dom) > 0
  /\ Len(heap[report[1].detections]) > 0
  /\ report[2].totalElements = 0
  /\ report[2].summary.totalDetections = 0

\* frame f holds the answer of analyzeElement for element e with the rule
\* engine enabled
Analysed(f, e) ==
  Returned(f) /\ element[f].el = e /\ config.enableRuleBased

\* C11: for the BUTTON with text "No thanks, I hate saving money" the rule
\* matches contain the rule confirmshaming, the result is a detection of
\* severity medium or high, and its recommendations contain "Use neutral
\* language for decline options".
C11_ConfirmshamingScenario ==
  \A f \in Frames :
    Analysed(f, DeclineButton) =>
      /\ \E i \in 1..Len(ruleResults[f]) :
           ruleResults[f][i].ruleId = "confirmshaming"
      /\ result[f].detected
      /\ result[f].severity \in {"medium", "high"}
      /\ \E i \in 1..Len(result[f].recommendations) :
           result[f].recommendations[i] =
             <<"Use neutral language for decline options">>

\* C12: for the checked checkbox labelled "Subscribe to marketing
\* newsletter" the rule matches contain the rule preselection with
\* category SNEAKING and severity medium.
C12_PreselectionScenario ==
  \A f \in Frames :
    Analysed(f, NewsletterCheckbox) =>
      \E i \in 1..Len(ruleResults[f]) :
        /\ ruleResults[f][i].ruleId = "preselection"
        /\ ruleResults[f][i].category = "SNEAKING"
        /\ ruleResults[f][i].severity = "medium"

\* the checkbox has been analysed and reported with severity medium
C12_Witness ==
  \E f \in Frames :
    /\ Analysed(f, NewsletterCheckbox)
    /\ result[f].detected
    /\ result[f].severity = "medium"
    /\ Len(result[f].ruleMatches) = 1

Clamped(t) == IF t < 0 THEN 0 ELSE IF t > One THEN One ELSE t

\* C14: the stored suspicion threshold is 0.6 before any call of
\* setSuspicionThreshold, always lies in [0, 1], and a call with input t
\* stores t when 0 <= t <= 1, 0 when t < 0 and 1 when t > 1.
C14_ThresholdClamped ==
  /\ suspicionThreshold = Dec(60)
  /\ [](suspicionThreshold >= 0 /\ suspicionThreshold <= One)
  /\ [][\A t \in ThresholdInputs :
          SetSuspicionThreshold(t) => suspicionThreshold' = Clamped(t)]_vars

\* setSuspicionThreshold(1.5) stored 1.0
C14_Witness ==
  nSets > 0 /\ suspicionThreshold = One /\ Dec(150) \in ThresholdInputs

\* the number of rule matches of category c in the detections found
MatchesOf(found, c) ==
  SumSeq([j \in 1..Len(found) |->
            Cardinality({i \in 1..Len(found[j].ruleMatches) :
                           found[j].ruleMatches[i].category = c})])

\* C17: in the summary of a report totalDetections is the number of
\* detections, the three severity counts are the numbers of detections of
\* each severity and add up to totalDetections, and byCategory has exactly
\* the categories of the rule matches, each with the number of rule
\* matches of that category: a heuristic-only detection adds to a severity
\* count and to no category count.
C17_SummaryCounts ==
  \A s \in Scans :
    pc[s] = "done" =>
      LET found == heap[report[s].detections]
          sm == report[s].summary
          Sev(v) == Cardinality({j \in 1..Len(found) : found[j].severity = v})
      IN /\ sm.totalDetections = Len(found)
         /\ sm.bySeverity.high = Sev("high")
         /\ sm.bySeverity.medium = Sev("medium")
         /\ sm.bySeverity.low = Sev("low")
         /\ sm.bySeverity.high + sm.bySeverity.medium + sm.bySeverity.low
              = sm.totalDetections
         /\ \A k \in 1..Len(sm.byCategory) :
              /\ sm.byCategory[k].count > 0
              /\ sm.byCategory[k].count
                   = MatchesOf(found, sm.byCategory[k].category)
              /\ \A m \in 1..Len(sm.byCategory) :
                   sm.byCategory[m].category = sm.byCategory[k].category
                     => m = k
         /\ \A c \in DOMAIN categories :
              MatchesOf(found, c) > 0 =>
                \E k \in 1..Len(sm.byCategory) : sm.byCategory[k].category = c

\* a report with a heuristic-only detection next to a detection with two
\* rule matches of one category
C17_Witness ==
  \E s \in Scans :
    /\ pc[s] = "done"
    /\ \E j \in 1..Len(heap[report[s].detections]) :
         heap[report[s].detections][j].ruleMatches = <<>>
    /\ \E k \in 1..Len(report[s].summary.byCategory) :
         report[s].summary.byCategory[k].count = 2
    /\ report[s].summary.totalDetections = 2

\* the nine rows of the condition table of the specification: when the row
\* is triggered by FeatureSet fs, and its score in hundredths
ConditionTable(fs) ==
  << [when |-> fs.text.hasNegativeLanguage
               /\ fs.text.sentimentScore < 0 - Dec(30), score |-> 80],
     [when |-> fs.text.hasUrgentLanguage /\ fs.text.hasNumberClaims,
      score |-> 70],
     [when |-> fs.visual.opacity # NaN /\ fs.visual.opacity < 50
               /\ fs.behavioral.isInteractive, score |-> 85],
     [when |-> fs.visual.contrastRatio.num < 3 * fs.visual.contrastRatio.den
               /\ fs.behavioral.isInteractive, score |-> 75],
     [when |-> fs.visual.isOverlay /\ fs.contextual.isInModal, score |-> 65],
     [when |-> fs.behavioral.hasPreselection /\ fs.behavioral.isForm,
      score |-> 80],
     [when |-> fs.behavioral.blocksUserAction, score |-> 90],
     [when |-> fs.behavioral.hasTimeConstraint /\ fs.text.hasUrgentLanguage,
      score |-> 85],
     [when |-> fs.contextual.isInPopup /\ fs.contextual.appearsOnLoad,
      score |-> 60] >>

\* the reason strings of the nine rows
ReasonOfRow ==
  << "Uses negative/guilt-inducing language",
     "Creates false sense of urgency with specific numbers",
     "Important interactive element has low visibility",
     "Low contrast used to hide important options",
     "Overlay forces user interaction",
     "Form has pre-selected options that benefit the company",
     "Element blocks user from completing desired action",
     "Combines time pressure with urgent language",
     "Popup appears immediately on page load" >>

\* frame f holds a verdict of the scorer
HasVerdict(f) ==
  InFlight(f) /\ ~IsNull(aiResult[f]) /\ ~IsThrow(aiResult[f])

\* C19: the confidence of a verdict is the mean of the scores of the
\* triggered rows of the nine-row table (times the number of triggered
\* rows it is their sum), 0 when no row is triggered; isDarkPattern holds
\* exactly when the confidence is at least the suspicion threshold; the
\* reasoning has one entry per triggered row, in table order.
C19_ScorerMean ==
  \A f \in Frames :
    HasVerdict(f) =>
      LET table == ConditionTable(extractFeatures(element[f].el))
          On(i) == table[i].when
          rows == SelectSeq([i \in 1..Len(table) |-> i], On)
          v == aiResult[f]
      IN /\ Len(rows) * v.confidence
              = SumSeq([j \in 1..Len(rows) |-> Dec(table[rows[j]].score)])
         /\ Len(rows) = 0 => v.confidence = 0
         /\ v.isDarkPattern <=> v.confidence >= suspicionThreshold
         /\ v.reasoning = [j \in 1..Len(rows) |-> ReasonOfRow[rows[j]]]

\* three rows triggered, and a verdict whose confidence equals the threshold
C19_Witness ==
  \E f \in Frames :
    /\ HasVerdict(f)
    /\ Len(aiResult[f].reasoning) = 3
    /\ aiResult[f].confidence = suspicionThreshold
    /\ aiResult[f].isDarkPattern

\* C20: the rule matches follow registry order with at most one match per
\* rule; rule r is among them exactly when one of its text patterns matches
\* the text or, no text pattern having matched, its predicate returns true
\* (a predicate that would throw does not matter once the text matched);
\* each match has confidence 0.9 and the id, name, category and severity of
\* its rule.
C20_ApplyRules ==
  \A f \in Frames :
    (InFlight(f) /\ config.enableRuleBased) =>
      LET el == element[f].el
          rr == ruleResults[f]
          TextMatch(r) == rules[r].nPatterns > 0 /\ rules[r].id \in el.textHit
          Pred(r) == rules[r].id \in el.chkTrue /\ rules[r].id \notin el.chkThrow
          Hit(r) == TextMatch(r) \/ (~TextMatch(r) /\ Pred(r))
          RuleOf(i) == CHOOSE r \in 1..Len(rules) : rules[r].id = rr[i].ruleId
      IN /\ \A i \in 1..Len(rr) :
              /\ \E r \in 1..Len(rules) : rules[r].id = rr[i].ruleId
              /\ rr[i].ruleName = rules[RuleOf(i)].name
              /\ rr[i].category = rules[RuleOf(i)].category
              /\ rr[i].severity = rules[RuleOf(i)].severity
              /\ rr[i].confidence = Dec(90)
              /\ Hit(RuleOf(i))
         /\ \A i, j \in 1..Len(rr) : i < j => RuleOf(i) < RuleOf(j)
         /\ \A r \in 1..Len(rules) :
              Hit(r) => \E i \in 1..Len(rr) : rr[i].ruleId = rules[r].id

\* one rule matched by its text and two more by their predicates
C20_Witness ==
  \E f \in Frames :
    /\ InFlight(f) /\ config.enableRuleBased
    /\ element[f].el.textHit = {"urgency-countdown"}
    /\ Len(ruleResults[f]) = 3

\* what a caller compares of an answer of analyzeElement
Answer(r) ==
  IF r.detected
  THEN [detected |-> TRUE, severity |-> r.severity,
        confidence |-> r.confidence]
  ELSE [detected |-> FALSE]

\* C15: detected, severity and confidence of an answer of analyzeElement
\* are determined by the element, the configuration and the threshold
\* alone, so two runs on an unchanged element under unchanged settings
\* agree whatever scans, exports and highlight operations ran between them.
C15_AnalyzeIdempotent ==
  (Returned(Direct) /\ element[Direct].ref \in 1..Len(dom))
  => Answer(result[Direct]) = Answer(AnalysisOf(element[Direct].ref))

\* an element is analysed after a scan has reported it, highlights have
\* been applied and the results exported
C15_Witness ==
  /\ Detection(Direct)
  /\ \E j \in 1..Len(heap[detectionResults]) :
       heap[detectionResults][j].element = element[Direct].ref
  /\ style[element[Direct].ref] # NoOutline
  /\ badges # <<>>
  /\ ~IsNull(exported)

\* C16: the document exportResults returns has as many detections as
\* detectionResults, the i-th with the severity and confidence of the i-th
\* detection in memory, and its summary is the summary of the report of
\* the scan that produced these results.
C16_ExportRoundTrip ==
  [][ExportResults =>
       LET found == heap[detectionResults]
           doc == exported'
       IN /\ Len(doc.detections) = Len(found)
          /\ \A i \in 1..Len(found) :
               /\ doc.detections[i].severity = found[i].severity
               /\ doc.detections[i].confidence = found[i].confidence
          /\ doc.summary.totalDetections = Len(found)
          /\ \A s \in Scans :
               (pc[s] = "done" /\ report[s].detections = detectionResults)
                 => doc.summary = report[s].summary
    ]_vars

\* an export with a rule-based and a heuristic-only detection
C16_Witness ==
  /\ ~IsNull(exported)
  /\ \E i, j \in 1..Len(exported.detections) :
       /\ exported.detections[i].ruleMatches # <<>>
       /\ exported.detections[j].ruleMatches = <<>>
       /\ exported.detections[j].confidence = Dec(34)
  /\ exported.summary.totalDetections = Len(heap[detectionResults])

\* C18: removeHighlights leaves no badge in the document and no element
\* with an outline or outline-offset written by the engine, whatever scans
\* and highlightDetections calls came before.
C18_HighlightReversible ==
  [][RemoveHighlights =>
       /\ badges' = <<>>
       /\ \A i \in 1..Len(dom) : style'[i] = NoOutline
    ]_vars

\* an entry of the recommendations that carries the AI prefix
IsAIEntry(e) == Len(e) = 2 /\ e[1] = "AI detected: "

\* C21: the recommendations of a detection have no duplicates; their
\* entries are exactly the advice strings of the categories of the rule
\* matches and the reasoning strings of the heuristic verdict with the
\* prefix "AI detected: "; no advice follows a prefixed entry, and the
\* prefixed entries keep the order of the reasoning list.
C21_Recommendations ==
  \A f \in Frames :
    Detection(f) =>
      LET d == result[f]
          recs == d.recommendations
          cats == {d.ruleMatches[i].category : i \in 1..Len(d.ruleMatches)}
          advice == UNION {{Advice(c)[k] : k \in 1..Len(Advice(c))} : c \in cats}
          reasons == IF IsNull(d.aiDetection) THEN <<>>
                     ELSE d.aiDetection.reasoning
          IsAI(e) == IsAIEntry(e)
          ai == SelectSeq(recs, IsAI)
      IN /\ \A i, j \in 1..Len(recs) : recs[i] = recs[j] => i = j
         /\ \A i \in 1..Len(recs) :
              \/ IsAIEntry(recs[i])
              \/ Len(recs[i]) = 1 /\ recs[i][1] \in advice
         /\ \A a \in advice : \E i \in 1..Len(recs) : recs[i] = <<a>>
         /\ \A i, j \in 1..Len(recs) :
              (IsAIEntry(recs[i]) /\ ~IsAIEntry(recs[j])) => j < i
         /\ [i \in 1..Len(ai) |-> ai[i][2]] = Dedupe(reasons)

\* advice of two categories, a rule match of a category without advice
\* left aside, and two prefixed reasons
C21_Witness ==
  \E f \in Frames :
    /\ Detection(f)
    /\ \E i \in 1..Len(result[f].ruleMatches) :
         result[f].ruleMatches[i].category = "FORCED_ACTION"
    /\ Len(result[f].ruleMatches) = 2
    /\ Len(result[f].recommendations) = 4
    /\ IsAIEntry(result[f].recommendations[3])

\* C22: in the summary of a report topIssues has at most five entries;
\* they are highest-count categories of byCategory (no category left out
\* has a higher count than one listed, and none is left out while fewer
\* than five are listed), in non-increasing order of count, each listed
\* once with its count of byCategory and with the display name the
\* category enum gives it.
C22_TopIssues ==
  \A s \in Scans :
    pc[s] = "done" =>
      LET by == report[s].summary.byCategory
          top == report[s].summary.topIssues
          listed == {top[i].category : i \in 1..Len(top)}
      IN /\ Len(top) <= 5
         /\ Len(top) = IF Len(by) < 5 THEN Len(by) ELSE 5
         /\ \A i, j \in 1..Len(top) :
              /\ i < j => top[i].count >= top[j].count
              /\ top[i].category = top[j].category => i = j
         /\ \A i \in 1..Len(top) :
              /\ \E k \in 1..Len(by) :
                   /\ by[k].category = top[i].category
                   /\ by[k].count = top[i].count
              /\ top[i].category \in DOMAIN categories
              /\ top[i].categoryName = categories[top[i].category]
         /\ \A k \in 1..Len(by) :
              by[k].category \notin listed =>
                \A i \in 1..Len(top) : by[k].count <= top[i].count

\* a summary with six categories, of which five are listed, the first
\* listed not being the first counted
C22_Witness ==
  \E s \in Scans :
    /\ pc[s] = "done"
    /\ Len(report[s].summary.byCategory) = 6
    /\ Len(report[s].summary.topIssues) = 5
    /\ report[s].summary.topIssues[1].category
         # report[s].summary.byCategory[1].category
    /\ report[s].summary.topIssues[1].count = 2

\* the answer analyzeElement has ready in frame f is a detection
Answered(f) ==
  pc[f] = "awaitAnalyze" /\ ~IsThrow(result[f]) /\ result[f].detected

\* C23: calls run one after the other.  While enableRuleBased is false
\* every detection analyzeElement answers has an empty rule-match list;
\* while enableAIBased is false every such detection has at least one rule
\* match and no heuristic verdict; while both are false analyzeElement
\* never answers "detected", and a scan that completes has pushed
\* detections of these kinds only, none at all with both false.
C23_Toggles ==
  /\ [](\A f \in Frames :
          /\ (Answered(f) /\ ~config.enableRuleBased)
               => result[f].ruleMatches = <<>>
          /\ (Answered(f) /\ ~config.enableAIBased)
               => /\ Len(result[f].ruleMatches) >= 1
                  /\ IsNull(result[f].aiDetection)
          /\ (~config.enableRuleBased /\ ~config.enableAIBased)
               => ~Answered(f))
  /\ [][\A s \in Scans :
          (pc[s] # "done" /\ pc'[s] = "done") =>
            LET found == heap'[report'[s].detections]
            IN /\ ~config.enableRuleBased =>
                    \A j \in 1..Len(found) : found[j].ruleMatches = <<>>
               /\ ~config.enableAIBased =>
                    \A j \in 1..Len(found) :
                      /\ Len(found[j].ruleMatches) >= 1
                      /\ IsNull(found[j].aiDetection)
               /\ (~config.enableRuleBased /\ ~config.enableAIBased) =>
                    /\ found = <<>>
                    /\ report'[s].summary.totalDetections = 0]_vars

\* a scan with detections, then both detectors switched off, then a scan
\* of the same candidates with no detection
C23_Witness ==
  /\ pc[1] = "done" /\ pc[2] = "done"
  /\ ~config.enableRuleBased /\ ~config.enableAIBased
  /\ Len(heap[report[1].detections]) > 0
  /\ report[2].totalElements = report[1].totalElements
  /\ heap[report[2].detections] = <<>>
  /\ report[2].summary.totalDetections = 0

\* the position of reference ref in the candidate list all
PositionIn(all, ref) == CHOOSE k \in 1..Len(all) : all[k] = ref

\* C24: within one scanPage call the analysis of a candidate starts only
\* when the scan is at the call (first candidate) or has the answer for
\* the candidate just before it; the report with its summary is made
\* only with the answer for the last candidate at hand (or with no
\* candidate at all); and the detections of the report are elements of
\* the candidate list, in the order of that list.
C24_OneByOne ==
  [][\A s \in Scans :
       /\ (idx'[s] # idx[s] /\ idx'[s] # 0) =>
            /\ idx'[s] = idx[s] + 1
            /\ IF idx[s] = 0 THEN pc[s] = "idle"
               ELSE pc[s] = "awaitAnalyze" /\ ~IsThrow(result[s])
            /\ element'[s].ref = allElements'[s][idx'[s]]
            /\ idx[s] # 0 => allElements'[s] = allElements[s]
       /\ (pc[s] # "done" /\ pc'[s] = "done") =>
            LET found == heap'[report'[s].detections]
                all == allElements[s]
            IN /\ IF pc[s] = "idle" THEN report'[s].totalElements = 0
                  ELSE /\ pc[s] = "awaitAnalyze"
                       /\ idx[s] = Len(all)
                       /\ report'[s].totalElements = Len(all)
               /\ report'[s].summary = generateSummary(found)
               /\ \A j \in 1..Len(found) :
                    \E k \in 1..Len(all) : all[k] = found[j].element
               /\ \A i, j \in 1..Len(found) :
                    i < j => PositionIn(all, found[i].element)
                               < PositionIn(all, found[j].element)]_vars

\* a report with two detections whose order, that of the candidate list,
\* is not document order
C24_Witness ==
  \E s \in Scans :
    /\ pc[s] = "done"
    /\ Len(heap[report[s].detections]) = 2
    /\ heap[report[s].detections][1].element
         > heap[report[s].detections][2].element

\* C25: scans may overlap.  The report a scan returns has only detections
\* of elements of the scan's own candidate list, each element at most
\* once, hence no more detections than totalElements, and a summary whose
\* totalDetections is the number of detections.
C25_OverlapReports ==
  [][\A s \in Scans :
       (pc[s] # "done" /\ pc'[s] = "done") =>
         LET found == heap'[report'[s].detections]
             all == allElements[s]
         IN /\ \A j \in 1..Len(found) :
                 \E k \in 1..Len(all) : all[k] = found[j].element
            /\ \A i, j \in 1..Len(found) :
                 found[i].element = found[j].element => i = j
            /\ Len(found) <= report'[s].totalElements
            /\ report'[s].summary.totalDetections = Len(found)]_vars

\* C26: a step of an analyzeElement call made from outside leaves
\* detectionResults and its array, the configuration and the threshold as
\* they are, so that getStatistics, exportResults and highlightDetections
\* give after the step what they gave before it; and every step that
\* changes detectionResults or the contents of an array is a step of
\* scanPage.
C26_AnalyzeFrame ==
  [][/\ (pc'[Direct] # pc[Direct]) =>
          /\ detectionResults' = detectionResults
          /\ heap' = heap
          /\ config' = config
          /\ suspicionThreshold' = suspicionThreshold
          /\ getStatistics(heap'[detectionResults'])
               = getStatistics(heap[detectionResults])
          /\ exportResults(heap'[detectionResults'])
               = exportResults(heap[detectionResults])
          /\ HighlightEach(dom', heap'[detectionResults'], 1, style', <<>>)
               = HighlightEach(dom, heap[detectionResults], 1, style, <<>>)
     /\ (detectionResults' # detectionResults \/ heap' # heap) =>
          \E s \in Scans : pc'[s] # pc[s] \/ idx'[s] # idx[s]]_vars

\* analyzeElement has answered a detection from outside while the results
\* of a scan are held, highlighted and exported
C26_Witness ==
  /\ Answered(Direct)
  /\ Len(heap[detectionResults]) > 0
  /\ badges # <<>>
  /\ ~IsNull(exported)
  /\ getStatistics(heap[detectionResults]).total = Len(exported.detections)

\* C27: the confidence of a heuristic verdict is 0 or lies between 0.6
\* and 0.9, both included; under the default threshold 0.6 the verdict is
\* positive exactly when at least one row of the condition table is
\* triggered, and detectedPatterns is non-empty exactly when the verdict
\* is positive.
C27_VerdictRange ==
  \A f \in Frames :
    HasVerdict(f) =>
      LET table == ConditionTable(extractFeatures(element[f].el))
          triggered == {i \in 1..Len(table) : table[i].when}
          v == aiResult[f]
      IN /\ \/ v.confidence = 0
            \/ v.confidence >= Dec(60) /\ v.confidence <= Dec(90)
         /\ suspicionThreshold = Dec(60) =>
              /\ v.isDarkPattern <=> triggered # {}
              /\ v.detectedPatterns # <<>> <=> v.isDarkPattern

\* under the default threshold, a positive verdict of confidence 0.6 with
\* one detected pattern
C27_Witness ==
  \E f \in Frames :
    /\ HasVerdict(f)
    /\ suspicionThreshold = DefaultThreshold
    /\ aiResult[f].confidence = Dec(60)
    /\ aiResult[f].isDarkPattern
    /\ Len(aiResult[f].detectedPatterns) = 1

\* C28: for every detection with a heuristic verdict, the aiDetection
\* object exportResults writes carries the confidence of the verdict, its
\* reasoning list, and pattern names that are, as a set, those of the
\* verdict's detectedPatterns.
C28_ExportVerdict ==
  [][ExportResults =>
       \A i \in 1..Len(heap[detectionResults]) :
         LET r == heap[detectionResults][i]
             x == exported'.detections[i].aiDetection
         IN ~IsNull(r.aiDetection) =>
              /\ x.confidence = JSONNumber(r.aiDetection.confidence)
              /\ x.reasoning = r.aiDetection.reasoning
              /\ "patterns" \in DOMAIN x
              /\ {x.patterns[k] : k \in 1..Len(x.patterns)}
                   = {r.aiDetection.detectedPatterns[k] :
                        k \in 1..Len(r.aiDetection.detectedPatterns)}]_vars

\* C29: once stop() has returned, the monitor starts no analyzeElement
\* call and writes no outline and no title to any element.
C29_StopIsFinal ==
  [][(~IsNull(observer) /\ ~observer.observing) =>
       /\ element'[Direct] # element[Direct] => element'[Direct] = NoElement
       /\ \A i \in 1..Len(dom) :
            style'[i] = style[i] /\ title'[i] = title[i]]_vars

\* C30: with the monitor started and never stopped, and the page adding
\* only finitely many nodes, every element node added is eventually the
\* argument of an analyzeElement call.
C30_AddedIsAnalysed ==
  \A i \in 1..MaxNodes :
    (i <= Len(dom) /\ IsElementNode(dom[i])) ~> (element[Direct].ref = i)

====
